---------------------------- MODULE Spec2Model ----------------------------
(***************************************************************************)
(* A model of the expression evaluator of math-mcp                         *)
(* (src/Classes/ExpressionEvaluator.ts) and of the library operations it   *)
(* calls (Arithmetic, Statistics, DataScience).                            *)
(*                                                                         *)
(* A string is a sequence of one-character strings, a token is such a      *)
(* sequence too.  A double is modelled as an exact rational <<n, d>> in    *)
(* lowest terms with d > 0; <<1, 0>>, <<-1, 0>> and <<0, 0>> stand for     *)
(* +Infinity, -Infinity and NaN.  A value the model cannot track exactly   *)
(* (an irrational result, or a rational beyond MaxMag) ends the            *)
(* evaluation with the outcome OUT_OF_MODEL, which no property counts as   *)
(* an error of the program.                                                *)
(***************************************************************************)
EXTENDS Integers, Sequences, FiniteSets, TLC

VARIABLES expression, pc, tokens, index, log, outcome, suspended, response

vars == <<expression, pc, tokens, index, log, outcome, suspended, response>>

-----------------------------------------------------------------------------
(* Bounds of the model *)

\* every tracked rational has |n| <= MaxMag and d <= MaxMag
MaxMag == 30000
\* numeric literals of the generated expressions are 0..MaxLit
MaxLit == 3
\* the longest stack of unary signs in a generated expression
MaxSigns == 2
\* the longest generated sequence of parenthesis-level lexemes
MaxLen == 4
\* the longest generated argument list
MaxArgs == 3
\* the calls of evaluate that can be in progress together
MaxCalls == 3
\* the longest array a library operation is called with
MaxArray == 2
\* round is called with k - 1/2 and k + 1/2 for the integers k from -MaxRound to MaxRound
MaxRound == 3
\* gcd is called with the integers from -MaxGcd to MaxGcd
MaxGcd == 6
\* the longest array of finite numbers median and percentile are called with
MaxSort == 4
\* the deepest nesting of parentheses, signs, powers, sums and calls
MaxNest == 2

-----------------------------------------------------------------------------
(* Characters *)

Digits == <<"0", "1", "2", "3", "4", "5", "6", "7", "8", "9">>

LowerLetters ==
    <<"a", "b", "c", "d", "e", "f", "g", "h", "i", "j", "k", "l", "m",
      "n", "o", "p", "q", "r", "s", "t", "u", "v", "w", "x", "y", "z">>

UpperLetters ==
    <<"A", "B", "C", "D", "E", "F", "G", "H", "I", "J", "K", "L", "M",
      "N", "O", "P", "Q", "R", "S", "T", "U", "V", "W", "X", "Y", "Z">>

InSeq(c, s) == \E k \in 1..Len(s) : s[k] = c

IsDigit(c) == InSeq(c, Digits)

IsLetter(c) == InSeq(c, LowerLetters) \/ InSeq(c, UpperLetters)

IsWhitespace(c) == c \in {" ", "\t", "\n", "\r"}

\* [a-zA-Z_]
IsIdentStart(c) == IsLetter(c) \/ c = "_"

\* [a-zA-Z0-9_]
IsIdentPart(c) == IsIdentStart(c) \/ IsDigit(c)

\* [\d,.\s-]
IsArrayChar(c) == IsDigit(c) \/ c \in {",", ".", "-"} \/ IsWhitespace(c)

\* [+\-*/^()]
IsOperatorChar(c) == c \in {"+", "-", "*", "/", "^", "(", ")"}

DigitVal(c) == (CHOOSE k \in 1..10 : Digits[k] = c) - 1

LowerChar(c) ==
    IF InSeq(c, UpperLetters)
    THEN LowerLetters[CHOOSE k \in 1..26 : UpperLetters[k] = c]
    ELSE c

toLowerCase(s) == [k \in 1..Len(s) |-> LowerChar(s[k])]

startsWith(s, c) == Len(s) >= 1 /\ s[1] = c

endsWith(s, c) == Len(s) >= 1 /\ s[Len(s)] = c

-----------------------------------------------------------------------------
(* Doubles *)

Abs(x) == IF x < 0 THEN -x ELSE x

RECURSIVE GCD(_, _)
GCD(a, b) == IF b = 0 THEN a ELSE GCD(b, a % b)

PosInf == <<1, 0>>
NegInf == <<-1, 0>>
NaN == <<0, 0>>

isNaN(x) == x = NaN

isFinite(x) == x[2] # 0

\* the rational n/d (d # 0) in lowest terms, with a positive denominator
Norm(n, d) ==
    LET g == GCD(Abs(n), Abs(d))
        s == IF d < 0 THEN -1 ELSE 1
    IN  <<(s * n) \div g, (s * d) \div g>>

Num(n) == <<n, 1>>

\* a finite value the model tracks exactly
Tracked(x) == isFinite(x) /\ Abs(x[1]) <= MaxMag /\ x[2] <= MaxMag

Sign(x) == IF x[1] > 0 THEN 1 ELSE IF x[1] < 0 THEN -1 ELSE 0

Less(x, y) == x[1] * y[2] < y[1] * x[2]

\* + - * / of two tracked finite doubles
QAdd(x, y) == Norm(x[1] * y[2] + y[1] * x[2], x[2] * y[2])

QSub(x, y) == Norm(x[1] * y[2] - y[1] * x[2], x[2] * y[2])

QMul(x, y) == Norm(x[1] * y[1], x[2] * y[2])

QDiv(x, y) == Norm(x[1] * y[2], x[2] * y[1])


\* the sentinel of a finite double the model does not track
Untracked == <<0, -1>>

Clip(x) == IF isFinite(x) /\ ~Tracked(x) THEN Untracked ELSE x

\* JS + - * / on doubles that passed validateNumber (finite); an operand the
\* model does not track makes the result untracked
DAdd(x, y) == IF Tracked(x) /\ Tracked(y) THEN Clip(QAdd(x, y)) ELSE Untracked

DSub(x, y) == IF Tracked(x) /\ Tracked(y) THEN Clip(QSub(x, y)) ELSE Untracked

DMul(x, y) == IF Tracked(x) /\ Tracked(y) THEN Clip(QMul(x, y)) ELSE Untracked

DDiv(x, y) ==
    IF ~(Tracked(x) /\ Tracked(y)) THEN Untracked
    ELSE IF y[1] = 0 THEN <<Sign(x), 0>>
    ELSE Clip(QDiv(x, y))

\* |n|^e for e >= 0, or MaxMag + 1 as soon as it exceeds MaxMag
RECURSIVE PowAcc(_, _, _)
PowAcc(n, e, acc) ==
    IF e = 0 THEN acc
    ELSE IF n <= 1 THEN n
    ELSE IF acc * n > MaxMag THEN MaxMag + 1
    ELSE PowAcc(n, e - 1, acc * n)

\* the least k with k * k >= n
RECURSIVE ISqrt(_, _)
ISqrt(n, k) == IF k * k >= n THEN k ELSE ISqrt(n, k + 1)

IsSquare(n) == ISqrt(n, 0) * ISqrt(n, 0) = n

\* Math.sqrt of a finite double x >= 0: exact on squares of rationals
MathSqrt(x) ==
    IF ~Tracked(x) THEN Untracked
    ELSE IF IsSquare(x[1]) /\ IsSquare(x[2]) THEN <<ISqrt(x[1], 0), ISqrt(x[2], 0)>>
    ELSE Untracked

\* Math.pow of two finite doubles.  2^1024 overflows a double and 2^-1075
\* rounds to zero.  The sign of a zero is not tracked: it shows only in the
\* sign of the Infinity that pow(0, negative) returns.
MathPow(b, e) ==
    IF ~(Tracked(b) /\ Tracked(e)) THEN Untracked
    ELSE IF e[1] = 0 THEN Num(1)
    ELSE IF e[2] # 1 THEN
        \* a fractional exponent
        IF b[1] < 0 THEN NaN
        ELSE IF b[1] = 0 THEN (IF e[1] > 0 THEN Num(0) ELSE PosInf)
        ELSE IF b = Num(1) THEN Num(1)
        ELSE Untracked
    ELSE
        LET k == Abs(e[1])
            neg == b[1] < 0 /\ k % 2 = 1
            s == IF neg THEN -1 ELSE 1
            pn == PowAcc(Abs(b[1]), k, 1)
            pd == PowAcc(b[2], k, 1)
            big == Abs(b[1]) >= 2 * b[2]
            small == 2 * Abs(b[1]) <= b[2]
            huge == Abs(b[1]) >= 10 * b[2]
        IN  IF e[1] > 0 THEN
                IF (big /\ k >= 1024) \/ (huge /\ k >= 309) THEN <<s, 0>>
                ELSE IF small /\ k >= 1075 THEN Num(0)
                ELSE IF pn > MaxMag \/ pd > MaxMag THEN Untracked
                ELSE <<s * pn, pd>>
            ELSE
                IF b[1] = 0 THEN PosInf
                ELSE IF small /\ k >= 1024 THEN <<s, 0>>
                ELSE IF (big /\ k >= 1075) \/ (huge /\ k >= 324) THEN Num(0)
                ELSE IF pn > MaxMag \/ pd > MaxMag THEN Untracked
                ELSE <<s * pd, pn>>

-----------------------------------------------------------------------------
(* Errors and values *)

\* an error is the message the code throws and the name or token it quotes
Err(msg, arg) == [msg |-> msg, arg |-> arg]

NoErr == Err("", <<>>)

OUT_OF_MODEL == Err("OUT_OF_MODEL", <<>>)

\* number | number[]
Scalar(x) == [isArray |-> FALSE, num |-> x, elems |-> <<>>]

Vector(xs) == [isArray |-> TRUE, num |-> NaN, elems |-> xs]

\* the result of a library operation: it throws err or returns v
Throw(e) == [err |-> e, v |-> Scalar(NaN)]

Return(v) == [err |-> NoErr, v |-> v]

\* a returned number; an untracked one ends the evaluation as OUT_OF_MODEL
ReturnNum(x) == IF x = Untracked THEN Throw(OUT_OF_MODEL) ELSE Return(Scalar(x))

ReturnVec(xs) ==
    IF \E k \in 1..Len(xs) : xs[k] = Untracked THEN Throw(OUT_OF_MODEL)
    ELSE Return(Vector(xs))

-----------------------------------------------------------------------------
(* Arithmetic *)

\* Arithmetic.validateNumber: the error it throws, or NoErr
validateNumber(value, paramName) ==
    IF isNaN(value) THEN Err("cannot be NaN", <<paramName>>)
    ELSE IF ~isFinite(value) THEN Err("must be a finite number", <<paramName>>)
    ELSE NoErr

\* the first error of two validations
First(e1, e2) == IF e1 # NoErr THEN e1 ELSE e2

add(firstNumber, secondNumber) ==
    LET e == First(validateNumber(firstNumber, "firstNumber"),
                   validateNumber(secondNumber, "secondNumber"))
    IN  IF e # NoErr THEN Throw(e) ELSE ReturnNum(DAdd(firstNumber, secondNumber))

subtract(minuend, subtrahend) ==
    LET e == First(validateNumber(minuend, "minuend"),
                   validateNumber(subtrahend, "subtrahend"))
    IN  IF e # NoErr THEN Throw(e) ELSE ReturnNum(DSub(minuend, subtrahend))

multiply(firstNumber, secondNumber) ==
    LET e == First(validateNumber(firstNumber, "firstNumber"),
                   validateNumber(secondNumber, "secondNumber"))
    IN  IF e # NoErr THEN Throw(e) ELSE ReturnNum(DMul(firstNumber, secondNumber))

division(numerator, denominator) ==
    LET e == First(validateNumber(numerator, "numerator"),
                   validateNumber(denominator, "denominator"))
    IN  IF e # NoErr THEN Throw(e)
        ELSE IF denominator[1] = 0 /\ Tracked(denominator)
        THEN Throw(Err("Division by zero is not allowed. Denominator cannot be zero.", <<>>))
        ELSE ReturnNum(DDiv(numerator, denominator))

power(base, exponent) ==
    LET e == First(validateNumber(base, "base"),
                   validateNumber(exponent, "exponent"))
    IN  IF e # NoErr THEN Throw(e) ELSE ReturnNum(MathPow(base, exponent))

sqrt(number) ==
    LET e == validateNumber(number, "number")
    IN  IF e # NoErr THEN Throw(e)
        ELSE IF number[1] < 0
        THEN Throw(Err("Cannot calculate square root of negative number", <<>>))
        ELSE ReturnNum(MathSqrt(number))

abs(number) ==
    LET e == validateNumber(number, "number")
    IN  IF e # NoErr THEN Throw(e) ELSE ReturnNum(<<Abs(number[1]), number[2]>>)

\* Math.round: the nearest integer, and of the two nearest the greater one
MathRound(x) == Num((2 * x[1] + x[2]) \div (2 * x[2]))

round(number) ==
    LET e == validateNumber(number, "number")
    IN  IF e # NoErr THEN Throw(e) ELSE ReturnNum(MathRound(number))

\* Arithmetic.validateInteger
validateInteger(value, paramName) ==
    LET e == validateNumber(value, paramName)
    IN  IF e # NoErr THEN e
        ELSE IF value[2] # 1 THEN Err("must be an integer", <<paramName>>)
        ELSE NoErr

\* while (b !== 0) { const temp = b; b = a % b; a = temp; } return a
RECURSIVE EuclidLoop(_, _)
EuclidLoop(a, b) == IF b # 0 THEN EuclidLoop(b, a % b) ELSE a

gcd(a, b) ==
    LET e == First(validateInteger(a, "a"), validateInteger(b, "b"))
    IN  IF e # NoErr THEN Throw(e)
        ELSE ReturnNum(Num(EuclidLoop(Abs(a[1]), Abs(b[1]))))

-----------------------------------------------------------------------------
(* Statistics and DataScience *)

\* a validation that looks at the length of the array only
Bug_validateLengthOnly(numbers, paramName) ==
    IF Len(numbers) = 0 THEN Err("cannot be empty", <<paramName>>) ELSE NoErr

\* Statistics.validateNumberArray and DataScience.validateNumberArray
validateNumberArray(numbers, paramName) ==
    IF Len(numbers) = 0 THEN Err("cannot be empty", <<paramName>>)
    ELSE IF \E k \in 1..Len(numbers) : ~isFinite(numbers[k])
    THEN LET k == CHOOSE j \in 1..Len(numbers) :
                      /\ ~isFinite(numbers[j])
                      /\ \A h \in 1..(j - 1) : isFinite(numbers[h])
         IN  IF isNaN(numbers[k]) THEN Err("cannot be NaN", <<paramName>>)
             ELSE Err("must be a finite number", <<paramName>>)
    ELSE NoErr

\* numbers.reduce((acc, x) => acc + x, 0) over numbers[1..k]
RECURSIVE SumTo(_, _)
SumTo(numbers, k) ==
    IF k = 0 THEN Num(0) ELSE DAdd(SumTo(numbers, k - 1), numbers[k])

\* numbers.reduce((min, current) => current < min ? current : min, numbers[0])
RECURSIVE MinTo(_, _)
MinTo(numbers, k) ==
    IF k = 0 THEN numbers[1]
    ELSE LET m == MinTo(numbers, k - 1)
         IN  IF Less(numbers[k], m) THEN numbers[k] ELSE m

RECURSIVE MaxTo(_, _)
MaxTo(numbers, k) ==
    IF k = 0 THEN numbers[1]
    ELSE LET m == MaxTo(numbers, k - 1)
         IN  IF Less(m, numbers[k]) THEN numbers[k] ELSE m

MeanOf(numbers) == DDiv(SumTo(numbers, Len(numbers)), Num(Len(numbers)))

mean(numbers) ==
    LET e == validateNumberArray(numbers, "numbers")
    IN  IF e # NoErr THEN Throw(e) ELSE ReturnNum(MeanOf(numbers))

min(numbers) ==
    LET e == validateNumberArray(numbers, "numbers")
    IN  IF e # NoErr THEN Throw(e) ELSE ReturnNum(MinTo(numbers, Len(numbers)))

max(numbers) ==
    LET e == validateNumberArray(numbers, "numbers")
    IN  IF e # NoErr THEN Throw(e) ELSE ReturnNum(MaxTo(numbers, Len(numbers)))

\* the sum over i <= k of (x[i] - mx) * (y[i] - my)
RECURSIVE SumProducts(_, _, _, _, _)
SumProducts(x, mx, y, my, k) ==
    IF k = 0 THEN Num(0)
    ELSE DAdd(SumProducts(x, mx, y, my, k - 1),
              DMul(DSub(x[k], mx), DSub(y[k], my)))

correlation(xArray, yArray) ==
    LET e == First(validateNumberArray(xArray, "xArray"),
                   validateNumberArray(yArray, "yArray"))
        n == Len(xArray)
        meanX == MeanOf(xArray)
        meanY == MeanOf(yArray)
        numerator == SumProducts(xArray, meanX, yArray, meanY, n)
        sumXSquares == SumProducts(xArray, meanX, xArray, meanX, n)
        sumYSquares == SumProducts(yArray, meanY, yArray, meanY, n)
        product == DMul(sumXSquares, sumYSquares)
        denominator == IF product = Untracked THEN Untracked ELSE MathSqrt(product)
    IN  IF e # NoErr THEN Throw(e)
        ELSE IF Len(xArray) # Len(yArray)
        THEN Throw(Err("Arrays must have the same length", <<>>))
        ELSE IF Len(xArray) < 2
        THEN Throw(Err("Arrays must have at least 2 elements for correlation calculation", <<>>))
        ELSE IF denominator = Untracked THEN Throw(OUT_OF_MODEL)
        ELSE IF denominator[1] = 0 THEN ReturnNum(Num(0))
        ELSE ReturnNum(DDiv(numerator, denominator))

covariance(xArray, yArray) ==
    LET e == First(validateNumberArray(xArray, "xArray"),
                   validateNumberArray(yArray, "yArray"))
        n == Len(xArray)
        meanX == MeanOf(xArray)
        meanY == MeanOf(yArray)
        sumProducts == SumProducts(xArray, meanX, yArray, meanY, n)
    IN  IF e # NoErr THEN Throw(e)
        ELSE IF Len(xArray) # Len(yArray)
        THEN Throw(Err("Arrays must have the same length", <<>>))
        ELSE IF Len(xArray) < 2
        THEN Throw(Err("Arrays must have at least 2 elements for covariance calculation", <<>>))
        ELSE ReturnNum(DDiv(sumProducts, Num(n - 1)))

zscore(value, meanArg, stdDev) ==
    IF ~isFinite(value) THEN Throw(Err("value must be a valid finite number", <<>>))
    ELSE IF ~isFinite(meanArg) THEN Throw(Err("mean must be a valid finite number", <<>>))
    ELSE IF ~isFinite(stdDev) THEN Throw(Err("stdDev must be a valid finite number", <<>>))
    ELSE IF stdDev[1] = 0 THEN Throw(Err("Standard deviation cannot be zero", <<>>))
    ELSE IF stdDev[1] < 0 THEN Throw(Err("Standard deviation must be positive", <<>>))
    ELSE ReturnNum(DDiv(DSub(value, meanArg), stdDev))

normalizeArray(numbers) ==
    LET e == validateNumberArray(numbers, "numbers")
        lo == MinTo(numbers, Len(numbers))
        hi == MaxTo(numbers, Len(numbers))
        range == DSub(hi, lo)
    IN  IF e # NoErr THEN Throw(e)
        ELSE IF lo = hi THEN ReturnVec([k \in 1..Len(numbers) |-> Num(0)])
        ELSE ReturnVec([k \in 1..Len(numbers) |-> DDiv(DSub(numbers[k], lo), range)])

\* the sum over i <= k of Math.pow(numbers[i] - m, 2)
RECURSIVE SumSquares(_, _, _)
SumSquares(numbers, m, k) ==
    IF k = 0 THEN Num(0)
    ELSE DAdd(SumSquares(numbers, m, k - 1),
              LET d == DSub(numbers[k], m) IN DMul(d, d))

standardizeArray(numbers) ==
    LET e == validateNumberArray(numbers, "numbers")
        n == Len(numbers)
        m == MeanOf(numbers)
        variance == DDiv(SumSquares(numbers, m, n), Num(n))
        stdDev == IF variance = Untracked THEN Untracked ELSE MathSqrt(variance)
    IN  IF e # NoErr THEN Throw(e)
        ELSE IF n < 2
        THEN Throw(Err("Array must have at least 2 elements for standardization", <<>>))
        ELSE IF stdDev = Untracked THEN Throw(OUT_OF_MODEL)
        ELSE IF stdDev[1] = 0 THEN ReturnVec([k \in 1..n |-> Num(0)])
        ELSE ReturnVec([k \in 1..n |-> DDiv(DSub(numbers[k], m), stdDev)])

\* a sort that compares nothing
Bug_InsertFirst(x, s) == <<x>> \o s

\* x put at its place in the sorted sequence s
RECURSIVE Insert(_, _)
Insert(x, s) ==
    IF s = <<>> THEN <<x>>
    ELSE IF Less(x, Head(s)) THEN <<x>> \o s
    ELSE <<Head(s)>> \o Insert(x, Tail(s))

\* [...numbers].sort((a, b) => a - b)
RECURSIVE Sorted(_)
Sorted(numbers) ==
    IF numbers = <<>> THEN <<>>
    ELSE Insert(numbers[Len(numbers)], Sorted(SubSeq(numbers, 1, Len(numbers) - 1)))

\* numbers.sort((a, b) => a - b): the array of the caller is sorted in place
Bug_SortedInPlace(numbers) ==
    [numbers |-> Sorted(numbers), sortedNumbers |-> Sorted(numbers)]

\* const sortedNumbers = [...numbers].sort((a, b) => a - b): the array of the
\* caller and the new array, after the statement
SortedCopy(numbers) == [numbers |-> numbers, sortedNumbers |-> Sorted(numbers)]

median(numbers) ==
    LET e == validateNumberArray(numbers, "numbers")
        sortedNumbers == SortedCopy(numbers).sortedNumbers
        n == Len(numbers)
    IN  IF e # NoErr THEN Throw(e)
        ELSE IF n % 2 # 0 THEN ReturnNum(sortedNumbers[(n \div 2) + 1])
        ELSE ReturnNum(DDiv(DAdd(sortedNumbers[(n \div 2) + 1], sortedNumbers[n \div 2]),
                            Num(2)))

\* modeMap.get(value): how often value is in numbers
Frequency(numbers, value) ==
    Cardinality({k \in 1..Len(numbers) : numbers[k] = value})

\* the keys of modeMap with the frequency f, in the order of their insertion
RECURSIVE ModeKeys(_, _, _)
ModeKeys(numbers, f, k) ==
    IF k > Len(numbers) THEN <<>>
    ELSE IF /\ Frequency(numbers, numbers[k]) = f
            /\ \A h \in 1..(k - 1) : numbers[h] # numbers[k]
    THEN <<numbers[k]>> \o ModeKeys(numbers, f, k + 1)
    ELSE ModeKeys(numbers, f, k + 1)

mode(numbers) ==
    LET e == validateNumberArray(numbers, "numbers")
        maxFrequency ==
            CHOOSE f \in 1..Len(numbers) :
                /\ \E k \in 1..Len(numbers) : Frequency(numbers, numbers[k]) = f
                /\ \A k \in 1..Len(numbers) : Frequency(numbers, numbers[k]) <= f
        modeResult == ModeKeys(numbers, maxFrequency, 1)
    IN  IF e # NoErr THEN Throw(e)
        ELSE IF Len(modeResult) = 1 THEN ReturnNum(modeResult[1])
        ELSE ReturnVec(modeResult)

\* the sum over i <= k of Math.pow(numbers[i] - m, 2)
RECURSIVE SumSquaredDifferences(_, _, _)
SumSquaredDifferences(numbers, m, k) ==
    IF k = 0 THEN Num(0)
    ELSE DAdd(SumSquaredDifferences(numbers, m, k - 1),
              MathPow(DSub(numbers[k], m), Num(2)))

VarianceOf(numbers) ==
    DDiv(SumSquaredDifferences(numbers, MeanOf(numbers), Len(numbers)),
         Num(Len(numbers)))

variance(numbers) ==
    LET e == validateNumberArray(numbers, "numbers")
    IN  IF e # NoErr THEN Throw(e) ELSE ReturnNum(VarianceOf(numbers))

standardDeviation(numbers) ==
    LET e == validateNumberArray(numbers, "numbers")
    IN  IF e # NoErr THEN Throw(e) ELSE ReturnNum(MathSqrt(VarianceOf(numbers)))

range(numbers) ==
    LET e == validateNumberArray(numbers, "numbers")
    IN  IF e # NoErr THEN Throw(e)
        ELSE ReturnNum(DSub(MaxTo(numbers, Len(numbers)), MinTo(numbers, Len(numbers))))

\* the nearest rank below, without the interpolation
Bug_percentileNearestRank(numbers, p) ==
    LET e == validateNumberArray(numbers, "numbers")
        sortedNumbers == Sorted(numbers)
        n == Len(numbers)
        idx == DMul(DDiv(p, Num(100)), Num(n - 1))
    IN  IF e # NoErr THEN Throw(e)
        ELSE IF isNaN(p) \/ ~isFinite(p) THEN Throw(Err("p must be a valid number", <<>>))
        ELSE IF Less(p, Num(0)) \/ Less(Num(100), p)
        THEN Throw(Err("p must be between 0 and 100", <<>>))
        ELSE ReturnNum(sortedNumbers[(idx[1] \div idx[2]) + 1])

percentile(numbers, p) ==
    LET e == validateNumberArray(numbers, "numbers")
        sortedNumbers == SortedCopy(numbers).sortedNumbers
        n == Len(numbers)
        \* (p / 100) * (sortedNumbers.length - 1)
        idx == DMul(DDiv(p, Num(100)), Num(n - 1))
        lowerIndex == idx[1] \div idx[2]
        upperIndex == IF idx[2] = 1 THEN lowerIndex ELSE lowerIndex + 1
        weight == DSub(idx, Num(lowerIndex))
    IN  IF e # NoErr THEN Throw(e)
        ELSE IF isNaN(p) \/ ~isFinite(p) THEN Throw(Err("p must be a valid number", <<>>))
        ELSE IF Less(p, Num(0)) \/ Less(Num(100), p)
        THEN Throw(Err("p must be between 0 and 100", <<>>))
        ELSE IF p = Num(0) THEN ReturnNum(sortedNumbers[1])
        ELSE IF p = Num(100) THEN ReturnNum(sortedNumbers[n])
        ELSE IF idx[2] = 1 THEN ReturnNum(sortedNumbers[idx[1] + 1])
        ELSE ReturnNum(DAdd(DMul(sortedNumbers[lowerIndex + 1], DSub(Num(1), weight)),
                            DMul(sortedNumbers[upperIndex + 1], weight)))

-----------------------------------------------------------------------------
(* Tokenizer *)

\* CHOOSE v \in {e : r \in {value}} : TRUE is const r = value; e: the
\* value is computed once, before what follows

InClass(cls, c) ==
    CASE cls = "digit" -> IsDigit(c)
      [] cls = "ident" -> IsIdentPart(c)
      [] cls = "array" -> IsArrayChar(c)

\* the end (exclusive) of the longest run of cls characters of s that starts at i
RunEnd(s, i, cls) ==
    CHOOSE j \in i..(Len(s) + 1) :
        /\ \A k \in i..(j - 1) : InClass(cls, s[k])
        /\ j = Len(s) + 1 \/ ~InClass(cls, s[j])

\* the end (exclusive) of the match of tokenRegex that starts at s[i], or i when
\* none starts there:
\*   [a-zA-Z_][a-zA-Z0-9_]* | \d+\.?\d* | \[[\d,.\s-]+\] | [+\-*/^()]
MatchEnd(s, i) ==
    IF IsIdentStart(s[i]) THEN RunEnd(s, i + 1, "ident")
    ELSE IF IsDigit(s[i]) THEN
        LET j == RunEnd(s, i, "digit")
        IN  IF j <= Len(s) /\ s[j] = "." THEN RunEnd(s, j + 1, "digit") ELSE j
    ELSE IF s[i] = "[" THEN
        LET j == RunEnd(s, i + 1, "array")
        IN  IF j > i + 1 /\ j <= Len(s) /\ s[j] = "]" THEN j + 1 ELSE i
    ELSE IF IsOperatorChar(s[i]) THEN i + 1
    ELSE i

\* cleaned.match(tokenRegex) with the g flag: every match, left to right; a
\* character at which no match starts is passed over
RECURSIVE MatchAll(_, _)
MatchAll(s, i) ==
    IF i > Len(s) THEN <<>>
    ELSE (CHOOSE v \in {IF j = i THEN MatchAll(s, i + 1)
              ELSE <<SubSeq(s, i, j - 1)>> \o MatchAll(s, j) :
              j \in {MatchEnd(s, i)}} : TRUE)

NotWhitespace(c) == ~IsWhitespace(c)

\* expression.replace(/\s+/g, '') and String.prototype.trim
RemoveWhitespace(s) == SelectSeq(s, NotWhitespace)

\* ExpressionEvaluator.tokenize: [err, tokens]
tokenize(expr) ==
    (CHOOSE v \in {IF matched = <<>>
         THEN [err |-> Err("Invalid mathematical expression: no valid tokens found", <<>>),
               tokens |-> <<>>]
         ELSE [err |-> NoErr, tokens |-> matched] :
         matched \in {MatchAll(cleaned, 1) : cleaned \in {RemoveWhitespace(expr)}}} : TRUE)

\* the number a digit string denotes, or MaxMag + 1 as soon as it exceeds MaxMag
RECURSIVE DecAcc(_, _, _)
DecAcc(ds, k, acc) ==
    IF k > Len(ds) THEN acc
    ELSE IF acc * 10 + DigitVal(ds[k]) > MaxMag THEN MaxMag + 1
    ELSE DecAcc(ds, k + 1, acc * 10 + DigitVal(ds[k]))

\* parseFloat on a string without whitespace and letters: the longest prefix
\* [+-]? digits* (. digits*)? with at least one digit, NaN when there is none
parseFloat(s) ==
    LET neg == startsWith(s, "-")
        a == IF neg \/ startsWith(s, "+") THEN 2 ELSE 1
        b == RunEnd(s, a, "digit")
        hasDot == b <= Len(s) /\ s[b] = "."
        c == IF hasDot THEN RunEnd(s, b + 1, "digit") ELSE b
        intDigits == SubSeq(s, a, b - 1)
        fracDigits == IF hasDot THEN SubSeq(s, b + 1, c - 1) ELSE <<>>
        n == DecAcc(intDigits \o fracDigits, 1, 0)
        d == PowAcc(10, Len(fracDigits), 1)
    IN  IF Len(intDigits) = 0 /\ Len(fracDigits) = 0 THEN NaN
        ELSE IF n > MaxMag \/ d > MaxMag THEN Untracked
        ELSE Norm(IF neg THEN -n ELSE n, d)

\* inner.split(',')
RECURSIVE Split(_, _)
Split(s, sep) ==
    IF \E k \in 1..Len(s) : s[k] = sep
    THEN LET k == CHOOSE j \in 1..Len(s) :
                      s[j] = sep /\ \A h \in 1..(j - 1) : s[h] # sep
         IN  <<SubSeq(s, 1, k - 1)>> \o Split(SubSeq(s, k + 1, Len(s)), sep)
    ELSE <<s>>

\* ExpressionEvaluator.parseArray: [err, v]
parseArray(arrayStr) ==
    LET inner == RemoveWhitespace(SubSeq(arrayStr, 2, Len(arrayStr) - 1))
        elements == Split(inner, ",")
        numbers == [k \in 1..Len(elements) |-> parseFloat(elements[k])]
        bad == {k \in 1..Len(elements) : isNaN(numbers[k]) \/ ~isFinite(numbers[k])}
        firstBad == CHOOSE k \in bad : \A h \in bad : k <= h
    IN  IF Len(inner) = 0 THEN Throw(Err("Empty array notation is not allowed", <<>>))
        ELSE IF bad # {}
        THEN IF \E h \in 1..(firstBad - 1) : numbers[h] = Untracked
             THEN Throw(OUT_OF_MODEL)
             ELSE Throw(Err("Invalid number in array", elements[firstBad]))
        ELSE ReturnVec(numbers)

-----------------------------------------------------------------------------
(* The tables of ExpressionEvaluator *)

FN_sqrt == <<"s", "q", "r", "t">>
FN_abs == <<"a", "b", "s">>
FN_power == <<"p", "o", "w", "e", "r">>
FN_floor == <<"f", "l", "o", "o", "r">>
FN_ceil == <<"c", "e", "i", "l">>
FN_round == <<"r", "o", "u", "n", "d">>
FN_sum == <<"s", "u", "m">>
FN_roundtoprecision == <<"r", "o", "u", "n", "d", "t", "o", "p", "r", "e", "c", "i", "s", "i", "o", "n">>
FN_floortoprecision == <<"f", "l", "o", "o", "r", "t", "o", "p", "r", "e", "c", "i", "s", "i", "o", "n">>
FN_ceiltoprecision == <<"c", "e", "i", "l", "t", "o", "p", "r", "e", "c", "i", "s", "i", "o", "n">>
FN_factorial == <<"f", "a", "c", "t", "o", "r", "i", "a", "l">>
FN_gcd == <<"g", "c", "d">>
FN_lcm == <<"l", "c", "m">>
FN_mean == <<"m", "e", "a", "n">>
FN_median == <<"m", "e", "d", "i", "a", "n">>
FN_mode == <<"m", "o", "d", "e">>
FN_min == <<"m", "i", "n">>
FN_max == <<"m", "a", "x">>
FN_variance == <<"v", "a", "r", "i", "a", "n", "c", "e">>
FN_standarddeviation == <<"s", "t", "a", "n", "d", "a", "r", "d", "d", "e", "v", "i", "a", "t", "i", "o", "n">>
FN_range == <<"r", "a", "n", "g", "e">>
FN_percentile == <<"p", "e", "r", "c", "e", "n", "t", "i", "l", "e">>
FN_correlation == <<"c", "o", "r", "r", "e", "l", "a", "t", "i", "o", "n">>
FN_covariance == <<"c", "o", "v", "a", "r", "i", "a", "n", "c", "e">>
FN_zscore == <<"z", "s", "c", "o", "r", "e">>
FN_normalizearray == <<"n", "o", "r", "m", "a", "l", "i", "z", "e", "a", "r", "r", "a", "y">>
FN_standardizearray == <<"s", "t", "a", "n", "d", "a", "r", "d", "i", "z", "e", "a", "r", "r", "a", "y">>

FUNCTIONS ==
    <<FN_sqrt, FN_abs, FN_power, FN_floor,
      FN_ceil, FN_round, FN_sum, FN_roundtoprecision,
      FN_floortoprecision, FN_ceiltoprecision, FN_factorial, FN_gcd,
      FN_lcm, FN_mean, FN_median, FN_mode,
      FN_min, FN_max, FN_variance, FN_standarddeviation,
      FN_range, FN_percentile, FN_correlation, FN_covariance,
      FN_zscore, FN_normalizearray, FN_standardizearray>>

includes(arr, x) == \E k \in 1..Len(arr) : arr[k] = x

\* Math.PI and Math.E, to the precision of the model
MathPI == <<355, 113>>
MathE == <<193, 71>>

CONST_pi == <<"p", "i">>
CONST_e == <<"e">>

\* CONSTANTS.hasOwnProperty(name)
IsConstant(name) == name \in {CONST_pi, CONST_e}

\* CONSTANTS[name]
ConstantValue(name) == IF name = CONST_pi THEN MathPI ELSE MathE

-----------------------------------------------------------------------------
(* Function dispatch *)

\* what a grammar rule leaves behind: the error it threw (or NoErr and its
\* value v), the cursor index.value, and the calls made so far
P(err, v, i, lg) == [err |-> err, v |-> v, i |-> i, log |-> lg]

Fail(err, i, lg) == P(err, Scalar(NaN), i, lg)

\* a record of the log: a call of a library operation, or of evaluateFunction
\* (op = "evaluateFunction", name = funcName)
LogEntry(op, name, args) == [op |-> op, name |-> name, args |-> args]

\* the library operation op applied to args
Library(op, args) ==
    CASE op = "add" -> add(args[1].num, args[2].num)
      [] op = "subtract" -> subtract(args[1].num, args[2].num)
      [] op = "multiply" -> multiply(args[1].num, args[2].num)
      [] op = "division" -> division(args[1].num, args[2].num)
      [] op = "power" -> power(args[1].num, args[2].num)
      [] op = "sqrt" -> sqrt(args[1].num)
      [] op = "abs" -> abs(args[1].num)
      [] op = "mean" -> mean(args[1].elems)
      [] op = "min" -> min(args[1].elems)
      [] op = "max" -> max(args[1].elems)
      [] op = "correlation" -> correlation(args[1].elems, args[2].elems)
      [] op = "covariance" -> covariance(args[1].elems, args[2].elems)
      [] op = "zscore" -> zscore(args[1].num, args[2].num, args[3].num)
      [] op = "normalizeArray" -> normalizeArray(args[1].elems)
      [] op = "standardizeArray" -> standardizeArray(args[1].elems)
      [] op = "median" -> median(args[1].elems)
      [] op = "mode" -> mode(args[1].elems)
      [] op = "variance" -> variance(args[1].elems)
      [] op = "standardDeviation" -> standardDeviation(args[1].elems)
      [] op = "range" -> range(args[1].elems)
      [] op = "percentile" -> percentile(args[1].elems, args[2].num)
      [] op = "round" -> round(args[1].num)
      [] op = "gcd" -> gcd(args[1].num, args[2].num)

\* a call of a library operation from the evaluator
Call(op, args, i, lg) ==
    LET Result(r) == P(r.err, r.v, i, Append(lg, LogEntry(op, <<>>, args)))
    IN  (CHOOSE v \in {Result(r) : r \in {Library(op, args)}} : TRUE)

\* args.length !== 1 || Array.isArray(args[0])
NotOneNumber(args) == Len(args) # 1 \/ args[1].isArray

\* args.length !== 1 || !Array.isArray(args[0])
NotOneArray(args) == Len(args) # 1 \/ ~args[1].isArray

\* args.length !== 2 || !Array.isArray(args[0]) || !Array.isArray(args[1])
NotTwoArrays(args) == Len(args) # 2 \/ ~args[1].isArray \/ ~args[2].isArray

NotThreeNumbers(args) ==
    Len(args) # 3 \/ args[1].isArray \/ args[2].isArray \/ args[3].isArray

\* the switch of ExpressionEvaluator.evaluateFunction
Dispatch(funcName, args, i, lg) ==
    CASE funcName = FN_sqrt ->
           IF NotOneNumber(args)
           THEN Fail(Err("requires exactly one numeric argument", funcName), i, lg)
           ELSE Call("sqrt", args, i, lg)
      [] funcName = FN_abs ->
           IF NotOneNumber(args)
           THEN Fail(Err("requires exactly one numeric argument", funcName), i, lg)
           ELSE Call("abs", args, i, lg)
      [] funcName = FN_mean ->
           IF NotOneArray(args)
           THEN Fail(Err("requires exactly one array argument", funcName), i, lg)
           ELSE Call("mean", args, i, lg)
      [] funcName = FN_min ->
           IF NotOneArray(args)
           THEN Fail(Err("requires exactly one array argument", funcName), i, lg)
           ELSE Call("min", args, i, lg)
      [] funcName = FN_max ->
           IF NotOneArray(args)
           THEN Fail(Err("requires exactly one array argument", funcName), i, lg)
           ELSE Call("max", args, i, lg)
      [] funcName = FN_correlation ->
           IF NotTwoArrays(args)
           THEN Fail(Err("requires exactly two array arguments", funcName), i, lg)
           ELSE Call("correlation", args, i, lg)
      [] funcName = FN_covariance ->
           IF NotTwoArrays(args)
           THEN Fail(Err("requires exactly two array arguments", funcName), i, lg)
           ELSE Call("covariance", args, i, lg)
      [] funcName = FN_zscore ->
           IF NotThreeNumbers(args)
           THEN Fail(Err("requires exactly three numeric arguments: value, mean, stdDev",
                         funcName), i, lg)
           ELSE Call("zscore", args, i, lg)
      [] funcName = FN_normalizearray ->
           IF NotOneArray(args)
           THEN Fail(Err("requires exactly one array argument", funcName), i, lg)
           ELSE Call("normalizeArray", args, i, lg)
      [] funcName = FN_standardizearray ->
           IF NotOneArray(args)
           THEN Fail(Err("requires exactly one array argument", funcName), i, lg)
           ELSE Call("standardizeArray", args, i, lg)
      [] OTHER -> Fail(Err("Unsupported function in expression", funcName), i, lg)

\* ExpressionEvaluator.evaluateFunction, entered with the cursor at i
evaluateFunction(funcName, args, i, lg) ==
    Dispatch(toLowerCase(funcName), args, i,
             Append(lg, LogEntry("evaluateFunction", funcName, args)))

-----------------------------------------------------------------------------
(* The recursive-descent parser.  The cursor i is index.value (from 0);      *)
(* tokens[index.value] is At(tokens, i).                                     *)

At(toks, i) == toks[i + 1]

PLUS == <<"+">>
MINUS == <<"-">>
STAR == <<"*">>
SLASH == <<"/">>
CARET == <<"^">>
LPAREN == <<"(">>
RPAREN == <<")">>
COMMA == <<",">>

\* /^\d+\.?\d*$/.test(token)
IsNumberToken(token) ==
    /\ Len(token) >= 1
    /\ IsDigit(token[1])
    /\ LET j == RunEnd(token, 1, "digit")
       IN  IF j <= Len(token) /\ token[j] = "."
           THEN RunEnd(token, j + 1, "digit") = Len(token) + 1
           ELSE j = Len(token) + 1

\* token.startsWith('[') && token.endsWith(']')
IsArrayToken(token) == startsWith(token, "[") /\ endsWith(token, "]")

\* the test of parseArgumentExpression for a function that may return an array
IsVectorFunction(token) ==
    /\ includes(FUNCTIONS, toLowerCase(token))
    /\ toLowerCase(token) \in {FN_normalizearray, FN_standardizearray}

\* the arguments parsed so far, in place of a value
PArgs(err, args, i, lg) == [err |-> err, args |-> args, i |-> i, log |-> lg]

\* the grammar rules: the private static methods that take (tokens, index)
GrammarRules ==
    {"parseExpression", "parseArgumentExpression", "parseAdditionSubtraction",
     "parseMultiplicationDivision", "parsePower", "parseFactor"}

\* a grammar rule is entered with the cursor at i, and left, by return or by
\* throw, with the cursor at i
Entered(method, i) == LogEntry("enter", <<method>>, <<Scalar(Num(i))>>)

Left(method, i) == LogEntry("leave", <<method>>, <<Scalar(Num(i))>>)

\* this.method(tokens, index): a call of a method of the parser, with the
\* value a loop has so far (acc) where the method is a loop of one
RECURSIVE Invoke(_, _, _, _, _)

\* a rule that calls itself before it has consumed a token, for one round
Bug_parseExpressionReenters(toks, i, lg) ==
    IF Cardinality({k \in 1..Len(lg) : /\ lg[k].op = "enter"
                                        /\ lg[k].name = <<"parseExpression">>
                                        /\ lg[k].args[1].num[1] = i}) <= 1
    THEN Invoke("parseExpression", toks, <<>>, i, lg)
    ELSE Invoke("parseAdditionSubtraction", toks, <<>>, i, lg)

parseExpression(toks, i, lg) == Invoke("parseAdditionSubtraction", toks, <<>>, i, lg)

\* one argument: an array literal, or an argument expression
parseArgument(toks, i, lg) ==
    IF IsArrayToken(At(toks, i))
    THEN LET a == parseArray(At(toks, i))
         IN  IF a.err # NoErr THEN Fail(a.err, i, lg) ELSE P(NoErr, a.v, i + 1, lg)
    ELSE Invoke("parseArgumentExpression", toks, <<>>, i, lg)

\* while (index.value < tokens.length && tokens[index.value] === ',')
ArgumentLoop(toks, args, i, lg) ==
    IF i < Len(toks) /\ At(toks, i) = COMMA
    THEN IF i + 1 >= Len(toks)
         THEN PArgs(Err("TypeError: Cannot read properties of undefined", <<>>),
                    args, i + 1, lg)
         ELSE (CHOOSE v \in {IF a.err # NoErr THEN PArgs(a.err, args, a.i, a.log)
                   ELSE Invoke("ArgumentLoop", toks, Append(args, a.v), a.i, a.log) :
                   a \in {Invoke("parseArgument", toks, <<>>, i + 1, lg)}} : TRUE)
    ELSE PArgs(NoErr, args, i, lg)

\* a function call, from its name at the cursor to the result of
\* evaluateFunction (the code is written out twice: in parseFactor and in
\* parseArgumentExpression)
parseFunctionCall(toks, i, lg) ==
    LET funcName == toLowerCase(At(toks, i))
        open == i + 1
    IN  IF open >= Len(toks) \/ At(toks, open) # LPAREN
        THEN Fail(Err("Function must be followed by parentheses", funcName), open, lg)
        ELSE (CHOOSE v \in {
            IF rest.err # NoErr THEN Fail(rest.err, rest.i, rest.log)
            ELSE IF rest.i >= Len(toks) \/ At(toks, rest.i) # RPAREN
            THEN Fail(Err("Mismatched parentheses: missing closing parenthesis for function",
                          funcName), rest.i, rest.log)
            ELSE evaluateFunction(funcName, rest.args, rest.i + 1, rest.log) :
            rest \in
                IF open + 1 < Len(toks) /\ At(toks, open + 1) # RPAREN
                THEN {IF first.err # NoErr
                      THEN PArgs(first.err, <<>>, first.i, first.log)
                      ELSE Invoke("ArgumentLoop", toks, <<first.v>>, first.i, first.log) :
                      first \in {Invoke("parseArgument", toks, <<>>, open + 1, lg)}}
                ELSE {PArgs(NoErr, <<>>, open + 1, lg)}} : TRUE)

\* parseArgumentExpression comparing the token itself, not its lower case
Bug_ArgumentCaseSensitive(toks, i, lg) ==
    IF i < Len(toks) /\ At(toks, i) \in {FN_normalizearray, FN_standardizearray}
    THEN Invoke("parseFunctionCall", toks, <<>>, i, lg)
    ELSE Invoke("parseExpression", toks, <<>>, i, lg)

parseArgumentExpression(toks, i, lg) ==
    IF i < Len(toks) /\ IsVectorFunction(At(toks, i))
    THEN Invoke("parseFunctionCall", toks, <<>>, i, lg)
    ELSE Invoke("parseExpression", toks, <<>>, i, lg)

\* AdditionSubtractionLoop with the right operand read as a Power: '+' and
\* '-' would bind as tightly as '*' and '/'
Bug_AdditionBindsTight(toks, left, i, lg) ==
    IF i < Len(toks) /\ (At(toks, i) = PLUS \/ At(toks, i) = MINUS)
    THEN LET operator == At(toks, i)
             right == Invoke("parsePower", toks, <<>>, i + 1, lg)
             Continue(res) ==
                 IF res.err # NoErr THEN res
                 ELSE Invoke("AdditionSubtractionLoop", toks, res.v, res.i, res.log)
         IN  IF right.err # NoErr THEN right
             ELSE Continue(Call(IF operator = PLUS THEN "add" ELSE "subtract",
                                <<left, right.v>>, right.i, right.log))
    ELSE P(NoErr, left, i, lg)

AdditionSubtractionLoop(toks, left, i, lg) ==
    IF i < Len(toks) /\ (At(toks, i) = PLUS \/ At(toks, i) = MINUS)
    THEN LET operator == At(toks, i)
         IN  (CHOOSE v \in {IF right.err # NoErr THEN right
                  ELSE (CHOOSE v \in {IF res.err # NoErr THEN res
                            ELSE Invoke("AdditionSubtractionLoop", toks, res.v, res.i, res.log) :
                            res \in {Call(IF operator = PLUS THEN "add" ELSE "subtract",
                                          <<left, right.v>>, right.i, right.log)}} : TRUE) :
                  right \in {Invoke("parseMultiplicationDivision", toks, <<>>, i + 1, lg)}} : TRUE)
    ELSE P(NoErr, left, i, lg)

parseAdditionSubtraction(toks, i, lg) ==
    (CHOOSE v \in {IF left.err # NoErr THEN left
         ELSE Invoke("AdditionSubtractionLoop", toks, left.v, left.i, left.log) :
         left \in {Invoke("parseMultiplicationDivision", toks, <<>>, i, lg)}} : TRUE)

MultiplicationDivisionLoop(toks, left, i, lg) ==
    IF i < Len(toks) /\ (At(toks, i) = STAR \/ At(toks, i) = SLASH)
    THEN LET operator == At(toks, i)
         IN  (CHOOSE v \in {IF right.err # NoErr THEN right
                  ELSE (CHOOSE v \in {IF res.err # NoErr THEN res
                            ELSE Invoke("MultiplicationDivisionLoop", toks, res.v, res.i, res.log) :
                            res \in {Call(IF operator = STAR THEN "multiply" ELSE "division",
                                          <<left, right.v>>, right.i, right.log)}} : TRUE) :
                  right \in {Invoke("parsePower", toks, <<>>, i + 1, lg)}} : TRUE)
    ELSE P(NoErr, left, i, lg)

parseMultiplicationDivision(toks, i, lg) ==
    (CHOOSE v \in {IF left.err # NoErr THEN left
         ELSE Invoke("MultiplicationDivisionLoop", toks, left.v, left.i, left.log) :
         left \in {Invoke("parsePower", toks, <<>>, i, lg)}} : TRUE)

\* parsePower as a loop over Factors: '^' would group from the left
RECURSIVE Bug_PowerLoop(_, _, _, _)
Bug_PowerLoop(toks, left, i, lg) ==
    IF i < Len(toks) /\ At(toks, i) = CARET
    THEN LET right == Invoke("parseFactor", toks, <<>>, i + 1, lg)
             Continue(res) ==
                 IF res.err # NoErr THEN res
                 ELSE Bug_PowerLoop(toks, res.v, res.i, res.log)
         IN  IF right.err # NoErr THEN right
             ELSE Continue(Call("power", <<left, right.v>>, right.i, right.log))
    ELSE P(NoErr, left, i, lg)

Bug_parsePowerLeft(toks, i, lg) ==
    LET left == Invoke("parseFactor", toks, <<>>, i, lg)
    IN  IF left.err # NoErr THEN left
        ELSE Bug_PowerLoop(toks, left.v, left.i, left.log)

parsePower(toks, i, lg) ==
    (CHOOSE v \in {IF left.err # NoErr THEN left
         ELSE IF left.i < Len(toks) /\ At(toks, left.i) = CARET
         THEN (CHOOSE v \in {IF right.err # NoErr THEN right
                   ELSE Call("power", <<left.v, right.v>>, right.i, right.log) :
                   right \in {Invoke("parsePower", toks, <<>>, left.i + 1, left.log)}} : TRUE)
         ELSE left :
         left \in {Invoke("parseFactor", toks, <<>>, i, lg)}} : TRUE)

\* a unary '-' that negates the whole Power after it: -a^b would be -(a^b)
Bug_UnaryMinusLoose(toks, i, lg) ==
    LET f == Invoke("parsePower", toks, <<>>, i + 1, lg)
    IN  IF f.err # NoErr THEN f
        ELSE Call("multiply", <<Scalar(Num(-1)), f.v>>, f.i, f.log)

\* parseFactor at a '-': Arithmetic.multiply(-1, this.parseFactor(tokens, index))
parseUnaryMinus(toks, i, lg) ==
    (CHOOSE v \in {IF f.err # NoErr THEN f
         ELSE Call("multiply", <<Scalar(Num(-1)), f.v>>, f.i, f.log) :
         f \in {Invoke("parseFactor", toks, <<>>, i + 1, lg)}} : TRUE)

parseFactor(toks, i, lg) ==
    IF i >= Len(toks) THEN Fail(Err("Unexpected end of expression", <<>>), i, lg)
    ELSE LET token == At(toks, i) IN
    IF token = MINUS THEN Invoke("parseUnaryMinus", toks, <<>>, i, lg)
    ELSE IF token = PLUS THEN Invoke("parseFactor", toks, <<>>, i + 1, lg)
    ELSE IF token = LPAREN THEN
        (CHOOSE v \in {IF result.err # NoErr THEN result
             ELSE IF result.i >= Len(toks) \/ At(toks, result.i) # RPAREN
             THEN Fail(Err("Mismatched parentheses: missing closing parenthesis", <<>>),
                       result.i, result.log)
             ELSE P(NoErr, result.v, result.i + 1, result.log) :
             result \in {Invoke("parseExpression", toks, <<>>, i + 1, lg)}} : TRUE)
    ELSE IF IsNumberToken(token) THEN
        LET num == parseFloat(token)
        IN  IF isNaN(num) \/ ~isFinite(num)
            THEN Fail(Err("Invalid number", token), i + 1, lg)
            ELSE IF num = Untracked THEN Fail(OUT_OF_MODEL, i + 1, lg)
            ELSE P(NoErr, Scalar(num), i + 1, lg)
    ELSE IF IsArrayToken(token)
    THEN Fail(Err("Array notation can only be used as function arguments", <<>>), i, lg)
    ELSE IF IsConstant(toLowerCase(token))
    THEN P(NoErr, Scalar(ConstantValue(toLowerCase(token))), i + 1, lg)
    ELSE IF includes(FUNCTIONS, toLowerCase(token)) THEN
        (CHOOSE v \in {IF result.err # NoErr THEN result
             ELSE IF result.v.isArray
             THEN Fail(Err("returns an array and cannot be used directly in arithmetic expressions",
                           toLowerCase(token)), result.i, result.log)
             ELSE result :
             result \in {Invoke("parseFunctionCall", toks, <<>>, i, lg)}} : TRUE)
    ELSE Fail(Err("Unexpected token", token), i, lg)

\* the body of a method of the parser
Method(method, toks, acc, i, lg) ==
    CASE method = "parseExpression" -> parseExpression(toks, i, lg)
      [] method = "parseArgumentExpression" -> parseArgumentExpression(toks, i, lg)
      [] method = "parseAdditionSubtraction" -> parseAdditionSubtraction(toks, i, lg)
      [] method = "AdditionSubtractionLoop" -> AdditionSubtractionLoop(toks, acc, i, lg)
      [] method = "parseMultiplicationDivision" -> parseMultiplicationDivision(toks, i, lg)
      [] method = "MultiplicationDivisionLoop" -> MultiplicationDivisionLoop(toks, acc, i, lg)
      [] method = "parsePower" -> parsePower(toks, i, lg)
      [] method = "parseUnaryMinus" -> parseUnaryMinus(toks, i, lg)
      [] method = "parseFactor" -> parseFactor(toks, i, lg)
      [] method = "parseArgument" -> parseArgument(toks, i, lg)
      [] method = "ArgumentLoop" -> ArgumentLoop(toks, acc, i, lg)
      [] method = "parseFunctionCall" -> parseFunctionCall(toks, i, lg)


\* a call of a method: the calls of the grammar rules are recorded in the
\* log around the library calls they make
Invoke(method, toks, acc, i, lg) ==
    LET Leave(r) ==
            IF method \in GrammarRules
            THEN [r EXCEPT !.log = Append(r.log, Left(method, r.i))]
            ELSE r
    IN  (CHOOSE v \in {Leave(r) :
                 r \in {Method(method, a.toks, a.acc, a.i,
                                IF method \in GrammarRules
                                THEN Append(a.lg, Entered(method, a.i)) ELSE a.lg) :
                        a \in {[toks |-> toks, acc |-> acc, i |-> i, lg |-> lg]}}} : TRUE)

\* the library and evaluateFunction calls of a log
IsCallEntry(entry) == entry.op \notin {"enter", "leave"}

CallsOf(lg) == SelectSeq(lg, IsCallEntry)

\* the entries and exits of the grammar rules
IsRuleEntry(entry) == entry.op \in {"enter", "leave"}

RulesOf(lg) == SelectSeq(lg, IsRuleEntry)

-----------------------------------------------------------------------------
(* evaluate *)

\* ExpressionEvaluator.validateParentheses from token k on: the error it
\* throws, or NoErr
RECURSIVE ValidateFrom(_, _, _)
ValidateFrom(toks, k, openCount) ==
    IF k > Len(toks)
    THEN IF openCount > 0
         THEN Err("Mismatched parentheses: missing closing parenthesis", <<>>)
         ELSE NoErr
    ELSE IF toks[k] = LPAREN THEN ValidateFrom(toks, k + 1, openCount + 1)
    ELSE IF toks[k] = RPAREN
    THEN IF openCount - 1 < 0
         THEN Err("Mismatched parentheses: unexpected closing parenthesis", <<>>)
         ELSE ValidateFrom(toks, k + 1, openCount - 1)
    ELSE ValidateFrom(toks, k + 1, openCount)

\* validateParentheses without its check of openCount after the loop
Bug_validateNoEndCheck(toks) ==
    IF ValidateFrom(toks, 1, 0) = Err("Mismatched parentheses: missing closing parenthesis", <<>>)
    THEN NoErr
    ELSE ValidateFrom(toks, 1, 0)

validateParentheses(toks) == ValidateFrom(toks, 1, 0)

\* what evaluate has produced: nothing yet, the number it returns, or the
\* error it throws; wrapped when the catch clause of evaluate rethrew it as
\* 'Invalid mathematical expression: ' + message
NoOutcome == [status |-> "none", value |-> NaN, err |-> NoErr, wrapped |-> FALSE]

Returned(x) == [status |-> "returned", value |-> x, err |-> NoErr, wrapped |-> FALSE]

Threw(e, w) == [status |-> "threw", value |-> NaN, err |-> e, wrapped |-> w]

\* the parsed result, before evaluate has checked it
Parsed(x) == [status |-> "parsed", value |-> x, err |-> NoErr, wrapped |-> FALSE]

\* if (!expression.trim()) throw new Error('Expression cannot be empty')
CheckEmpty ==
    /\ pc = "start"
    /\ IF RemoveWhitespace(expression) = <<>>
       THEN /\ outcome' = Threw(Err("Expression cannot be empty", <<>>), FALSE)
            /\ pc' = "done"
       ELSE /\ outcome' = outcome
            /\ pc' = "tokenize"
    /\ UNCHANGED <<expression, tokens, index, log, suspended, response>>

\* const tokens = this.tokenize(expression)
Tokenize ==
    /\ pc = "tokenize"
    /\ LET t == tokenize(expression)
       IN  IF t.err # NoErr
           THEN /\ outcome' = Threw(t.err, TRUE)
                /\ pc' = "done"
                /\ tokens' = tokens
           ELSE /\ outcome' = outcome
                /\ pc' = "validate"
                /\ tokens' = t.tokens
    /\ UNCHANGED <<expression, index, log, suspended, response>>

\* this.validateParentheses(tokens)
Validate ==
    /\ pc = "validate"
    /\ LET e == validateParentheses(tokens)
       IN  IF e # NoErr
           THEN /\ outcome' = Threw(e, TRUE)
                /\ pc' = "done"
           ELSE /\ outcome' = outcome
                /\ pc' = "parse"
    /\ UNCHANGED <<expression, tokens, index, log, suspended, response>>

\* const index = { value: 0 }; const result = this.parseExpression(tokens, index)
Parse ==
    /\ pc = "parse"
    /\ LET Result(r) ==
               /\ index' = r.i
               /\ log' = CallsOf(r.log)
               /\ IF r.err # NoErr
                  THEN /\ outcome' = Threw(r.err, TRUE)
                       /\ pc' = "done"
                  ELSE /\ outcome' = Parsed(r.v.num)
                       /\ pc' = "check"
       IN  \E r \in {Invoke("parseExpression", tokens, <<>>, 0, <<>>)} : Result(r)
    /\ UNCHANGED <<expression, tokens, suspended, response>>

\* evaluate without its check of the cursor: the tokens the parser left are ignored
Bug_CheckFiniteOnly ==
    /\ pc = "check"
    /\ outcome' =
         IF isNaN(outcome.value) \/ ~isFinite(outcome.value)
         THEN Threw(Err("Expression evaluation resulted in an invalid number", <<>>), TRUE)
         ELSE Returned(outcome.value)
    /\ pc' = "done"
    /\ UNCHANGED <<expression, tokens, index, log, suspended, response>>

\* evaluate without its check of the result: whatever the parser computed is returned
Bug_CheckTokensOnly ==
    /\ pc = "check"
    /\ outcome' =
         IF index < Len(tokens)
         THEN Threw(Err("Unexpected token at end of expression", At(tokens, index)), TRUE)
         ELSE Returned(outcome.value)
    /\ pc' = "done"
    /\ UNCHANGED <<expression, tokens, index, log, suspended, response>>

\* the checks of evaluate after the parse: every token consumed, a finite result
Check ==
    /\ pc = "check"
    /\ outcome' =
         IF index < Len(tokens)
         THEN Threw(Err("Unexpected token at end of expression", At(tokens, index)), TRUE)
         ELSE IF isNaN(outcome.value) \/ ~isFinite(outcome.value)
         THEN Threw(Err("Expression evaluation resulted in an invalid number", <<>>), TRUE)
         ELSE Returned(outcome.value)
    /\ pc' = "done"
    /\ UNCHANGED <<expression, tokens, index, log, suspended, response>>

-----------------------------------------------------------------------------
(* The expressions evaluate is called with *)

\* the concatenation of a sequence of strings
RECURSIVE Cat(_)
Cat(parts) == IF parts = <<>> THEN <<>> ELSE Head(parts) \o Cat(Tail(parts))

\* the decimal digits of n >= 0
RECURSIVE DecChars(_)
DecChars(n) ==
    IF n < 10 THEN <<Digits[n + 1]>>
    ELSE DecChars(n \div 10) \o <<Digits[(n % 10) + 1]>>

Literals == {DecChars(n) : n \in 0..MaxLit}

BinaryOperators == {PLUS, MINUS, STAR, SLASH, CARET}

\* every string of at most n of the given lexemes
RECURSIVE Strings(_, _)
Strings(lexemes, n) ==
    IF n = 0 THEN {<<>>}
    ELSE LET shorter == Strings(lexemes, n - 1)
         IN  shorter \cup {x \o y : x \in shorter, y \in lexemes}

\* a op b op c, bare and with either pair in parentheses
BinaryInputs ==
    LET triples == {<<a, p, b, q, c>> : a \in Literals, p \in BinaryOperators,
                        b \in Literals, q \in BinaryOperators, c \in Literals}
    IN  {Cat(t) : t \in triples}
        \cup {Cat(<<LPAREN, t[1], t[2], t[3], RPAREN, t[4], t[5]>>) : t \in triples}
        \cup {Cat(<<t[1], t[2], LPAREN, t[3], t[4], t[5], RPAREN>>) : t \in triples}

SignStacks == Strings({PLUS, MINUS}, MaxSigns)

\* stacked unary signs before a literal, a parenthesis, a constant and a call
SignInputs ==
    {Cat(<<s, a, p, t, b>>) : s \in SignStacks, a \in Literals,
         p \in BinaryOperators, t \in Strings({PLUS, MINUS}, 1), b \in Literals}
    \cup {Cat(<<s, LPAREN, a, MINUS, b, RPAREN>>) :
              s \in SignStacks, a \in Literals, b \in Literals}
    \cup {Cat(<<s, c>>) : s \in SignStacks, c \in {CONST_pi, CONST_e, <<"P", "i">>}}
    \cup {Cat(<<s, FN_abs, LPAREN, a, MINUS, b, RPAREN>>) :
              s \in SignStacks, a \in Literals, b \in Literals}

\* divisions whose operands are literals, computed values and Infinity
DivisionInputs ==
    LET lefts == Literals
                 \cup {Cat(<<LPAREN, a, MINUS, b, RPAREN>>) : a, b \in Literals}
                 \cup {Cat(<<a, CARET, MINUS, b>>) : a, b \in Literals}
        rights == Literals
                  \cup {Cat(<<LPAREN, a, MINUS, b, RPAREN>>) : a, b \in Literals}
                  \cup {Cat(<<MINUS, a>>) : a \in Literals}
                  \cup {Cat(<<a, CARET, b>>) : a, b \in Literals}
    IN  {Cat(<<x, SLASH, y>>) : x \in lefts, y \in rights}

\* every string of at most MaxLen of these lexemes
ParenthesisInputs ==
    Strings({LPAREN, RPAREN, <<"2">>, SLASH, FN_sqrt, <<"q">>}, MaxLen)

ARRAY_1234 == <<"[", "1", ",", "2", ",", "3", ",", "4", "]">>
ARRAY_2468 == <<"[", "2", ",", "4", ",", "6", ",", "8", "]">>
ARRAY_10_50 == <<"[", "1", "0", ",", "2", "0", ",", "3", "0", ",", "4", "0", ",", "5", "0", "]">>
ARRAY_123 == <<"[", "1", ",", "2", ",", "3", "]">>
ARRAY_31 == <<"[", "3", ",", "1", "]">>
ARRAY_5 == <<"[", "5", "]">>

\* the examples of the README
README_correlation == <<"c", "o", "r", "r", "e", "l", "a", "t", "i", "o", "n", "(", "[", "1", ",", "2", ",", "3", ",", "4", "]", ",", " ", "[", "2", ",", "4", ",", "6", ",", "8", "]", ")", " ", "*", " ", "1", "0", "0">>
README_pipeline == <<"m", "e", "a", "n", "(", "n", "o", "r", "m", "a", "l", "i", "z", "e", "A", "r", "r", "a", "y", "(", "[", "1", "0", ",", " ", "2", "0", ",", " ", "3", "0", ",", " ", "4", "0", ",", " ", "5", "0", "]", ")", ")">>

NAME_foo == <<"f", "o", "o">>
NAME_normalizeArray == <<"n", "o", "r", "m", "a", "l", "i", "z", "e", "A", "r", "r", "a", "y">>
NAME_standardizeArray == <<"s", "t", "a", "n", "d", "a", "r", "d", "i", "z", "e", "A", "r", "r", "a", "y">>
NAME_NORMALIZEARRAY == <<"N", "O", "R", "M", "A", "L", "I", "Z", "E", "A", "R", "R", "A", "Y">>

\* the argument lists of at most MaxArgs arguments, written with commas
ArgumentTexts == {ARRAY_1234, ARRAY_2468, <<"2">>}

RECURSIVE ArgumentLists(_)
ArgumentLists(n) ==
    IF n = 0 THEN {<<>>}
    ELSE IF n = 1 THEN {<<>>} \cup ArgumentTexts
    ELSE LET shorter == ArgumentLists(n - 1)
         IN  shorter \cup {Cat(<<x, COMMA, y>>) : x \in shorter \ {<<>>}, y \in ArgumentTexts}

\* a call of every name of the function table, of a constant and of an unknown
\* name, alone and as an operand
CallInputs ==
    LET names == {FUNCTIONS[k] : k \in 1..Len(FUNCTIONS)}
                 \cup {NAME_foo, CONST_pi, <<"M", "e", "a", "n">>}
        calls == {Cat(<<f, LPAREN, args, RPAREN>>) :
                      f \in names, args \in ArgumentLists(MaxArgs)}
    IN  calls \cup {Cat(<<c, STAR, <<"1", "0", "0">>>>) : c \in calls}
        \cup {README_correlation}

\* calls of the functions that return an array
VectorCalls ==
    LET plain == {Cat(<<f, LPAREN, a, RPAREN>>) :
                      f \in {NAME_normalizeArray, NAME_standardizeArray,
                             NAME_NORMALIZEARRAY, FN_normalizearray},
                      a \in {ARRAY_10_50, ARRAY_123, ARRAY_31, ARRAY_5}}
    IN  plain \cup {Cat(<<f, LPAREN, v, RPAREN>>) :
                        f \in {NAME_normalizeArray, NAME_standardizeArray}, v \in plain}

\* where a call that returns an array is not a whole function argument
VectorMisuseInputs ==
    VectorCalls
    \cup {Cat(<<v, p, <<"1">>>>) : v \in VectorCalls, p \in BinaryOperators}
    \cup {Cat(<<<<"1">>, p, v>>) : v \in VectorCalls, p \in BinaryOperators}
    \cup {Cat(<<LPAREN, v, RPAREN>>) : v \in VectorCalls}
    \cup {Cat(<<s, v>>) : v \in VectorCalls, s \in {PLUS, MINUS}}
    \cup {Cat(<<f, LPAREN, v, p, <<"1">>, RPAREN>>) :
              f \in {FN_mean, FN_max}, v \in VectorCalls, p \in BinaryOperators}
    \cup {Cat(<<f, LPAREN, LPAREN, v, RPAREN, RPAREN>>) :
              f \in {FN_mean, FN_max}, v \in VectorCalls}

\* where it is one
VectorArgumentInputs ==
    {Cat(<<f, LPAREN, v, RPAREN>>) :
         f \in {FN_mean, FN_min, FN_max, FN_sqrt, FN_median}, v \in VectorCalls}
    \cup {README_pipeline}

\* an argument that is a scalar expression
ScalarArgumentInputs ==
    {Cat(<<f, LPAREN, a, p, b, RPAREN>>) :
         f \in {FN_sqrt, FN_abs, FN_mean}, a \in Literals,
         p \in BinaryOperators, b \in Literals}

\* the examples of the specification
EX_precedence == <<"2", "+", "3", "*", "4">>
EX_parentheses == <<"(", "2", "+", "3", ")", "*", "4">>
EX_power == <<"2", "^", "3", "^", "2">>
EX_unary == <<"-", "5", "+", "3">>
EX_array == <<"m", "e", "a", "n", "(", "[", "1", ",", "2", ",", "3", ",", "4", ",", "5", "]", ")">>
EX_misuse == <<"n", "o", "r", "m", "a", "l", "i", "z", "e", "A", "r", "r", "a", "y", "(", "[", "1", ",", "2", ",", "3", "]", ")", " ", "+", " ", "1">>
EX_division == <<"5", "/", "0">>
EX_open == <<"(", "2", "+", "3">>
EX_close == <<"2", "+", "3", ")">>
EX_unknown == <<"f", "o", "o", "(", "1", ")">>
EX_zscore == <<"z", "s", "c", "o", "r", "e", "(", "2", ",", "1", ",", "3", ")">>

ExampleInputs ==
    {EX_precedence, EX_parentheses, EX_power, EX_unary, EX_array, EX_misuse,
     EX_division, EX_open, EX_close, EX_unknown, EX_zscore, CONST_pi, CONST_e}

\* strings without a token, and the empty expression
NoTokenInputs == {<<>>, <<" ">>, <<"%">>, <<".">>, <<"$", " ", "&">>}

\* characters that are part of no token, beside tokens
JunkInputs ==
    LET junk == {<<"$">>, <<"%">>, <<"&">>, <<".">>, <<"[">>, <<"]">>, <<",">>}
    IN  {Cat(<<j, a>>) : j \in junk, a \in Literals}
        \cup {Cat(<<a, j>>) : j \in junk, a \in Literals}
        \cup {Cat(<<a, j, b>>) : j \in junk, a \in Literals, b \in Literals}
        \cup {Cat(<<a, <<".">>, b, <<".">>, c>>) : a, b, c \in Literals}
        \cup {<<"[", "]">>, <<"[", "a", "]">>, <<"2", "+", "#", "3">>}

\* the examples of the README with '%'
README_modulo == <<"1", "7", " ", "%", " ", "5", " ", "+", " ", "p", "o", "w", "e", "r", "(", "2", ",", " ", "3", ")">>
README_cycling == <<"5", " ", "%", " ", "3">>
README_hours == <<"(", "1", "0", " ", "+", " ", "7", ")", " ", "%", " ", "1", "2">>

\* the arguments xs, written with commas between them
RECURSIVE Join(_)
Join(xs) ==
    IF Len(xs) = 0 THEN <<>>
    ELSE IF Len(xs) = 1 THEN xs[1]
    ELSE xs[1] \o COMMA \o Join(Tail(xs))

\* the elements written in an array literal: decimals with an optional '-',
\* an empty element and malformed ones
WellFormedElements == {<<"1">>, <<"-", "2">>, <<"1", ".", "5">>}

MalformedElements ==
    {<<>>, <<"1", ".", "2", ".", "3">>, <<"1", "-", "2">>, <<"-", "-", "1">>}

ElementLists ==
    UNION {[1..n -> WellFormedElements \cup MalformedElements] : n \in 1..2}

\* [e1,e2,...]
ArrayLiteral(es) == <<"[">> \o Join(es) \o <<"]">>

MeanOfLiteral(lit) == Cat(<<FN_mean, LPAREN, lit, RPAREN>>)

NESTED_12 == <<"[", "[", "1", ",", "2", "]", "]">>

ArrayLiteralInputs ==
    {MeanOfLiteral(ArrayLiteral(es)) : es \in ElementLists}
      \cup {MeanOfLiteral(NESTED_12), MeanOfLiteral(<<"[", "]">>)}

\* expressions that end where a rule needs one more token, and expressions
\* that go on after the top rule has returned
ExhaustedInputs ==
    {FN_sqrt, FN_mean, <<"1", "+">>, <<"2", "*">>, <<"2", "^">>, <<"-">>, <<"+", "-">>,
     Cat(<<FN_sqrt, <<"2">>>>), Cat(<<FN_sqrt, PLUS, <<"2">>>>)}

TrailingInputs ==
    {<<"(", "1", ")", "(", "2", ")">>, <<"2", " ", "p", "i">>, <<"1", " ", "2">>,
     <<"(", "1", " ", "2", ")">>, <<"p", "i", "(", "2", ")">>, <<"2", "(", "3", ")">>,
     <<"(", "1", ")", "2">>, <<"1", "+", "2", "[", "3", "]">>}

\* values that overflow or are undefined, alone and as operands and arguments
OverflowInputs ==
    LET TEN_400 == <<"1", "0", "^", "4", "0", "0">>
        TWO_1024 == <<"2", "^", "1", "0", "2", "4">>
        ROOT == <<"(", "0", "-", "1", ")", "^", "0", ".", "5">>
        huge == {TEN_400, TWO_1024, ROOT, <<"0", "^", "-", "1">>}
    IN  huge
        \cup {Cat(<<h, p, a>>) : h \in huge, p \in BinaryOperators, a \in {<<"0">>, <<"2">>}}
        \cup {Cat(<<a, p, h>>) : h \in huge, p \in BinaryOperators, a \in {<<"0">>, <<"2">>}}
        \cup {Cat(<<h, p, h>>) : h \in huge, p \in BinaryOperators}
        \cup {Cat(<<f, LPAREN, h, RPAREN>>) : f \in {FN_sqrt, FN_abs, MINUS, <<>>}, h \in huge}
        \cup {Cat(<<f, LPAREN, g, LPAREN, a, RPAREN, RPAREN>>) :
                  f \in {FN_mean, FN_max}, g \in {FN_normalizearray, FN_standardizearray},
                  a \in {<<"[", "2", ",", "2", "]">>, ARRAY_31}}
        \cup {<<"2", "^", "-", "1", "0", "7", "5">>, <<"-", "1", "^", "0", ".", "5">>,
               <<"s", "q", "r", "t", "(", "0", "-", "1", ")">>}

\* a % b, alone and beside another operator
ModuloInputs ==
    {Cat(<<a, <<"%">>, b>>) : a \in Literals, b \in Literals \ {<<"0">>}}
    \cup {Cat(<<a, <<"%">>, b, p, c>>) :
              a \in Literals, b \in Literals \ {<<"0">>}, p \in {PLUS, STAR}, c \in Literals}
    \cup {README_modulo, README_cycling, README_hours}

Inputs ==
    BinaryInputs \cup SignInputs \cup DivisionInputs \cup ParenthesisInputs
    \cup CallInputs \cup VectorMisuseInputs \cup VectorArgumentInputs
    \cup ScalarArgumentInputs \cup NoTokenInputs \cup ExampleInputs
    \cup JunkInputs \cup ModuloInputs \cup OverflowInputs \cup ArrayLiteralInputs
    \cup ExhaustedInputs \cup TrailingInputs

-----------------------------------------------------------------------------
(* The 'evaluate' tool of the server: its handler calls evaluate and makes
   the response from the value or from the error it catches.  A text is a
   sequence of pieces: characters, or whole phrases of a message. *)

\* n without its factors p
RECURSIVE Without(_, _)
Without(n, p) == IF n % p = 0 THEN Without(n \div p, p) ELSE n

\* the digits after the decimal point of r / d, for 0 <= r < d and d a
\* product of twos and fives
RECURSIVE FractionChars(_, _)
FractionChars(r, d) ==
    IF r = 0 THEN <<>>
    ELSE <<Digits[((r * 10) \div d) + 1]>> \o FractionChars((r * 10) % d, d)

\* `${value}` of a finite number: the digits of an integer, the decimal
\* expansion of a fraction that has a finite one; the shortest decimal that
\* reads back as the double nearest to any other fraction is kept symbolic
NumberToString(x) ==
    LET n == Abs(x[1])
        d == x[2]
        sign == IF x[1] < 0 THEN <<"-">> ELSE <<>>
    IN  IF d = 1 THEN sign \o DecChars(n)
        ELSE IF Without(Without(d, 2), 5) = 1
        THEN sign \o DecChars(n \div d) \o <<".">> \o FractionChars(n % d, d)
        ELSE sign \o <<"(">> \o DecChars(n) \o <<"/">> \o DecChars(d) \o <<")">>

\* error.message of what evaluate throws: the inner message and the name or
\* token it quotes, behind the prefix the catch clause of evaluate adds
ErrorMessage(o) ==
    (IF o.wrapped THEN <<"Invalid mathematical expression: ">> ELSE <<>>)
      \o <<o.err.msg>> \o o.err.arg

NoResponse == [raised |-> FALSE, content |-> <<>>]

\* { content: [{ type: "text", text }] }
TextResponse(text) ==
    [raised |-> FALSE, content |-> <<[type |-> "text", text |-> text]>>]

\* a handler without its catch clause: the error of evaluate escapes
Bug_RespondUncaught ==
    /\ pc = "done"
    /\ response' =
         IF outcome.status = "returned"
         THEN TextResponse(NumberToString(outcome.value))
         ELSE [raised |-> TRUE, content |-> <<>>]
    /\ pc' = "responded"
    /\ UNCHANGED <<expression, tokens, index, log, outcome, suspended>>

\* try { value = evaluate(expression); return text `${value}` }
\* catch (error) { return text `Error: ${error.message}` }
Respond ==
    /\ pc = "done"
    /\ response' =
         IF outcome.status = "returned"
         THEN TextResponse(NumberToString(outcome.value))
         ELSE TextResponse(<<"Error: ">> \o ErrorMessage(outcome))
    /\ pc' = "responded"
    /\ UNCHANGED <<expression, tokens, index, log, outcome, suspended>>

-----------------------------------------------------------------------------
(* The specification *)

Init ==
    /\ expression \in Inputs
    /\ pc = "start"
    /\ tokens = <<>>
    /\ index = 0
    /\ log = <<>>
    /\ outcome = NoOutcome
    /\ suspended = <<>>
    /\ response = NoResponse

Next == CheckEmpty \/ Tokenize \/ Validate \/ Parse \/ Check \/ Respond

Spec == Init /\ [][Next]_vars

-----------------------------------------------------------------------------
(* Several calls of evaluate.  The variables expression .. outcome are the
   locals of the call that is running; suspended holds the locals of the
   other calls, each where it stopped.  A call owns its tokens and its cursor:
   both are created inside evaluate. *)

Frame == [expression |-> expression, pc |-> pc, tokens |-> tokens,
          index |-> index, log |-> log, outcome |-> outcome]

\* the running call and the suspended ones
Frames == <<Frame>> \o suspended

\* the expressions of the calls that run together: a sum, a number, an
\* unbalanced and an empty expression
CallExpressions ==
    {<<"1", "+", "2">>, <<"2">>, <<"2", ")">>, <<>>}

\* the running call is suspended and another call of evaluate begins
Start ==
    /\ Len(suspended) + 1 < MaxCalls
    /\ suspended' = <<Frame>> \o suspended
    /\ expression' \in CallExpressions
    /\ pc' = "start"
    /\ tokens' = <<>>
    /\ index' = 0
    /\ log' = <<>>
    /\ outcome' = NoOutcome
    /\ response' = response

\* tokens and cursor belong to a class field instead of the call: a switch
\* leaves the cursor where the other call put it
Bug_SwitchSharedCursor(k) ==
    /\ k \in 1..Len(suspended)
    /\ suspended' = [suspended EXCEPT ![k] = Frame]
    /\ expression' = suspended[k].expression
    /\ pc' = suspended[k].pc
    /\ tokens' = suspended[k].tokens
    /\ index' = index
    /\ log' = suspended[k].log
    /\ outcome' = suspended[k].outcome
    /\ response' = response

\* a switch that leaves the tokens where the other call put them
Bug_SwitchSharedTokens(k) ==
    /\ k \in 1..Len(suspended)
    /\ suspended' = [suspended EXCEPT ![k] = Frame]
    /\ expression' = suspended[k].expression
    /\ pc' = suspended[k].pc
    /\ tokens' = tokens
    /\ index' = suspended[k].index
    /\ log' = suspended[k].log
    /\ outcome' = suspended[k].outcome
    /\ response' = response

\* the running call is suspended and the k-th suspended call goes on, with
\* the locals it had
Switch(k) ==
    /\ k \in 1..Len(suspended)
    /\ suspended' = [suspended EXCEPT ![k] = Frame]
    /\ expression' = suspended[k].expression
    /\ pc' = suspended[k].pc
    /\ tokens' = suspended[k].tokens
    /\ index' = suspended[k].index
    /\ log' = suspended[k].log
    /\ outcome' = suspended[k].outcome
    /\ response' = response

InitCalls ==
    /\ expression \in CallExpressions
    /\ pc = "start"
    /\ tokens = <<>>
    /\ index = 0
    /\ log = <<>>
    /\ outcome = NoOutcome
    /\ suspended = <<>>
    /\ response = NoResponse

NextCalls ==
    \/ CheckEmpty \/ Tokenize \/ Validate \/ Parse \/ Check
    \/ Start
    \/ \E k \in 1..MaxCalls : Switch(k)

SpecCalls == InitCalls /\ [][NextCalls]_vars

\* evaluate(expression) as one step: what a call returns or throws when it
\* runs alone from beginning to end
evaluate(expr) ==
    IF RemoveWhitespace(expr) = <<>>
    THEN Threw(Err("Expression cannot be empty", <<>>), FALSE)
    ELSE LET Checked(toks, r) ==
                 IF r.err # NoErr THEN Threw(r.err, TRUE)
                 ELSE IF r.i < Len(toks)
                 THEN Threw(Err("Unexpected token at end of expression", At(toks, r.i)), TRUE)
                 ELSE IF isNaN(r.v.num) \/ ~isFinite(r.v.num)
                 THEN Threw(Err("Expression evaluation resulted in an invalid number", <<>>), TRUE)
                 ELSE Returned(r.v.num)
             Validated(toks, e) ==
                 IF e # NoErr THEN Threw(e, TRUE)
                 ELSE Checked(toks, Invoke("parseExpression", toks, <<>>, 0, <<>>))
             Tokenized(t) ==
                 IF t.err # NoErr THEN Threw(t.err, TRUE)
                 ELSE Validated(t.tokens, validateParentheses(t.tokens))
         IN  Tokenized(tokenize(expr))

-----------------------------------------------------------------------------
(* What the properties speak of *)

Done == pc = "done"

\* the library operation of a binary operator token
OperationOf(operator) ==
    CASE operator = PLUS -> "add"
      [] operator = MINUS -> "subtract"
      [] operator = STAR -> "multiply"
      [] operator = SLASH -> "division"
      [] operator = CARET -> "power"

\* the value of a numeric literal
Literal(token) == Return(Scalar(parseFloat(token)))

\* x operator y, for operands evaluated left to right
Apply(operator, x, y) ==
    IF x.err # NoErr THEN x
    ELSE IF y.err # NoErr THEN y
    ELSE Library(OperationOf(operator), <<x.v, y.v>>)

\* -1 * x
Negate(x) ==
    IF x.err # NoErr THEN x ELSE Library("multiply", <<Scalar(Num(-1)), x.v>>)

\* what evaluate makes of an expression whose value is r
Evaluates(r) ==
    IF r.err # NoErr THEN Threw(r.err, TRUE)
    ELSE IF ~isFinite(r.v.num)
    THEN Threw(Err("Expression evaluation resulted in an invalid number", <<>>), TRUE)
    ELSE Returned(r.v.num)

IsLowOperator(token) == token \in {PLUS, MINUS}

IsHighOperator(token) == token \in {STAR, SLASH}

IsBinaryOperator(token) == token \in BinaryOperators

\* the tokens are a p b q c, from position k on
IsChain(k) ==
    /\ Len(tokens) >= k + 4
    /\ IsNumberToken(tokens[k]) /\ IsBinaryOperator(tokens[k + 1])
    /\ IsNumberToken(tokens[k + 2]) /\ IsBinaryOperator(tokens[k + 3])
    /\ IsNumberToken(tokens[k + 4])

-----------------------------------------------------------------------------
(* C1..C3: precedence, associativity, unary signs *)

\* C1: for numeric literals a, b, c, a + b * c is a + (b * c) and a * b + c is
\* (a * b) + c ('*' and '/' bind tighter than '+' and '-'), and a pair in
\* parentheses is evaluated first whatever the operators ("2+3*4" is 14,
\* "(2+3)*4" is 20).
C1_Precedence ==
    Done =>
      /\ (Len(tokens) = 5 /\ IsChain(1)
            /\ IsLowOperator(tokens[2]) /\ IsHighOperator(tokens[4]))
           => outcome = Evaluates(Apply(tokens[2], Literal(tokens[1]),
                                 Apply(tokens[4], Literal(tokens[3]), Literal(tokens[5]))))
      /\ (Len(tokens) = 5 /\ IsChain(1)
            /\ IsHighOperator(tokens[2]) /\ IsLowOperator(tokens[4]))
           => outcome = Evaluates(Apply(tokens[4],
                                 Apply(tokens[2], Literal(tokens[1]), Literal(tokens[3])),
                                 Literal(tokens[5])))
      /\ (Len(tokens) = 7 /\ tokens[1] = LPAREN /\ tokens[5] = RPAREN
            /\ IsNumberToken(tokens[2]) /\ IsBinaryOperator(tokens[3])
            /\ IsNumberToken(tokens[4]) /\ IsBinaryOperator(tokens[6])
            /\ IsNumberToken(tokens[7]))
           => outcome = Evaluates(Apply(tokens[6],
                                 Apply(tokens[3], Literal(tokens[2]), Literal(tokens[4])),
                                 Literal(tokens[7])))
      /\ (Len(tokens) = 7 /\ tokens[3] = LPAREN /\ tokens[7] = RPAREN
            /\ IsNumberToken(tokens[1]) /\ IsBinaryOperator(tokens[2])
            /\ IsNumberToken(tokens[4]) /\ IsBinaryOperator(tokens[5])
            /\ IsNumberToken(tokens[6]))
           => outcome = Evaluates(Apply(tokens[2], Literal(tokens[1]),
                                 Apply(tokens[5], Literal(tokens[4]), Literal(tokens[6]))))
      /\ expression = EX_precedence => outcome = Returned(Num(14))
      /\ expression = EX_parentheses => outcome = Returned(Num(20))

\* "2+3*4" has been evaluated to 14
C1_Witness == Done /\ expression = EX_precedence /\ outcome = Returned(Num(14))

\* C2: for numeric literals a, b, c, a ^ b ^ c is a ^ (b ^ c) ("2^3^2" is 512),
\* and two operators of the same level group from the left: a - b - c is
\* (a - b) - c, a / b / c is (a / b) / c, and so for + with - and * with /.
C2_Associativity ==
    Done =>
      /\ (Len(tokens) = 5 /\ IsChain(1) /\ tokens[2] = CARET /\ tokens[4] = CARET)
           => outcome = Evaluates(Apply(CARET, Literal(tokens[1]),
                                 Apply(CARET, Literal(tokens[3]), Literal(tokens[5]))))
      /\ (Len(tokens) = 5 /\ IsChain(1)
            /\ \/ IsLowOperator(tokens[2]) /\ IsLowOperator(tokens[4])
               \/ IsHighOperator(tokens[2]) /\ IsHighOperator(tokens[4]))
           => outcome = Evaluates(Apply(tokens[4],
                                 Apply(tokens[2], Literal(tokens[1]), Literal(tokens[3])),
                                 Literal(tokens[5])))
      /\ expression = EX_power => outcome = Returned(Num(512))

\* "2^3^2" has been evaluated to 512
C2_Witness == Done /\ expression = EX_power /\ outcome = Returned(Num(512))

\* the first position from k on that holds no sign
RECURSIVE SignsEnd(_)
SignsEnd(k) ==
    IF k <= Len(tokens) /\ tokens[k] \in {PLUS, MINUS} THEN SignsEnd(k + 1) ELSE k

\* the signs tokens[from..to] applied to x, the innermost first
RECURSIVE Signed(_, _, _)
Signed(from, to, x) ==
    IF from > to THEN x
    ELSE IF tokens[from] = MINUS THEN Negate(Signed(from + 1, to, x))
    ELSE Signed(from + 1, to, x)

\* C3: each unary '-' multiplies the value of the Factor after it by -1 and each
\* unary '+' leaves it unchanged, however many signs are stacked, and a sign
\* applies before the binary operator next to it: "-5+3" is -2 and -a ^ b is
\* (-a) ^ b.  The Factor is a literal, a parenthesis or a constant.
C3_UnarySigns ==
    Done =>
      LET k == SignsEnd(1)
          m == SignsEnd(k + 2)
      IN  /\ (k > 1 /\ Len(tokens) >= k + 2 /\ IsNumberToken(tokens[k])
                /\ IsBinaryOperator(tokens[k + 1])
                /\ m = Len(tokens) /\ IsNumberToken(tokens[m]))
               => outcome = Evaluates(Apply(tokens[k + 1],
                                     Signed(1, k - 1, Literal(tokens[k])),
                                     Signed(k + 2, m - 1, Literal(tokens[m]))))
          /\ (k > 1 /\ Len(tokens) = k + 4 /\ tokens[k] = LPAREN
                /\ IsNumberToken(tokens[k + 1]) /\ tokens[k + 2] = MINUS
                /\ IsNumberToken(tokens[k + 3]) /\ tokens[k + 4] = RPAREN)
               => outcome = Evaluates(Signed(1, k - 1,
                                     Apply(MINUS, Literal(tokens[k + 1]),
                                           Literal(tokens[k + 3]))))
          /\ (k > 1 /\ Len(tokens) = k /\ IsConstant(toLowerCase(tokens[k])))
               => outcome = Evaluates(Signed(1, k - 1,
                                     Return(Scalar(ConstantValue(toLowerCase(tokens[k]))))))
          /\ expression = EX_unary => outcome = Returned(Num(-2))

\* "-2^2" has been evaluated to (-2)^2 = 4
C3_Witness ==
    /\ Done
    /\ tokens = <<MINUS, <<"2">>, CARET, <<"2">>>>
    /\ outcome = Returned(Num(4))

-----------------------------------------------------------------------------
(* C4..C10: function calls, division, parentheses, vectors *)

\* the log holds this call
Logged(entry) == \E k \in 1..Len(log) : log[k] = entry

\* the error kinds of the specification, by the message the code throws
IsUnknownFunctionError(e) == e.msg = "Unsupported function in expression"

IsSyntaxError(e) ==
    e.msg \in {"Unexpected token", "Function must be followed by parentheses",
               "Unexpected end of expression"}

IsVectorMisuseError(e) ==
    e.msg = "returns an array and cannot be used directly in arithmetic expressions"

IsDivisionByZeroError(e) ==
    e.msg = "Division by zero is not allowed. Denominator cannot be zero."

UnexpectedClose == Err("Mismatched parentheses: unexpected closing parenthesis", <<>>)

MissingClose == Err("Mismatched parentheses: missing closing parenthesis", <<>>)

\* C4: the arguments of a call, written with commas, all reach the dispatcher
\* in written order: correlation(x, y) hands it the two Vectors and evaluate
\* returns the library's result (correlation([1,2,3,4], [2,4,6,8]) * 100 is
\* 100), and zscore(v, m, s) hands it three Scalars.
C4_AllArgumentsDispatched ==
    Done =>
      /\ \A x, y \in {ARRAY_1234, ARRAY_2468} :
           expression = Cat(<<FN_correlation, LPAREN, x, COMMA, y, RPAREN>>)
             => /\ Logged(LogEntry("evaluateFunction", FN_correlation,
                                   <<parseArray(x).v, parseArray(y).v>>))
                /\ outcome = Evaluates(Library("correlation",
                                               <<parseArray(x).v, parseArray(y).v>>))
      /\ expression = README_correlation => outcome = Returned(Num(100))
      /\ expression = EX_zscore
           => Logged(LogEntry("evaluateFunction", FN_zscore,
                              <<Scalar(Num(2)), Scalar(Num(1)), Scalar(Num(3))>>))

\* the functions of the function table that take one Vector, and one Scalar
OneVectorFunctions ==
    {FN_sum, FN_mean, FN_median, FN_mode, FN_min, FN_max, FN_variance,
     FN_standarddeviation, FN_range, FN_normalizearray, FN_standardizearray}

OneScalarFunctions == {FN_sqrt, FN_abs, FN_floor, FN_ceil, FN_round, FN_factorial}

\* C5: a call of a name of the function table with arguments of the right
\* count and kind never fails as an unsupported function.
C5_EveryFunctionSupported ==
    (/\ Done
     /\ Len(tokens) = 4 /\ tokens[2] = LPAREN /\ tokens[4] = RPAREN
     /\ \/ tokens[1] \in OneVectorFunctions /\ tokens[3] = ARRAY_1234
        \/ tokens[1] \in OneScalarFunctions /\ tokens[3] = <<"2">>)
      => ~IsUnknownFunctionError(outcome.err)

\* C6: whenever '/' is applied with a right operand that is zero, evaluate
\* fails with the division-by-zero error, whatever the left operand is.
C6_DivisionByZero ==
    Done =>
      \A k \in 1..Len(log) :
        (log[k].op = "division" /\ log[k].args[2].num = Num(0))
          => outcome.status = "threw" /\ IsDivisionByZeroError(outcome.err)

\* the number of tokens tok among the first k tokens
Count(toks, k, tok) == Cardinality({j \in 1..k : toks[j] = tok})

\* the running count of '(' minus ')' is negative somewhere
ClosesEarly(toks) ==
    \E k \in 1..Len(toks) : Count(toks, k, RPAREN) > Count(toks, k, LPAREN)

\* or it is positive at the end
Unbalanced(toks) ==
    \/ ClosesEarly(toks)
    \/ Count(toks, Len(toks), LPAREN) > Count(toks, Len(toks), RPAREN)

\* C7: a token sequence with unbalanced parentheses makes evaluate fail with
\* the mismatched-parentheses error before parsing starts: the parse step is
\* never reached, the cursor stays at 0 and no library operation is called.
C7_ParenthesesBeforeParsing ==
    Unbalanced(tokens) =>
      /\ pc \in {"validate", "done", "responded"}
      /\ index = 0
      /\ log = <<>>
      /\ pc # "validate"
           => outcome = Threw(IF ClosesEarly(tokens) THEN UnexpectedClose
                       ELSE MissingClose, TRUE)

\* "q)" has failed on its parenthesis, not on the unknown token q
C7_Witness ==
    /\ Done
    /\ tokens = <<<<"q">>, RPAREN>>
    /\ outcome = Threw(UnexpectedClose, TRUE)

\* C8: an identifier that is neither a constant nor a function name, followed
\* by a parenthesised argument list, fails with the unknown-function error,
\* which is not the error of an unexpected token.
C8_UnknownFunction ==
    (/\ Done
     /\ Len(tokens) >= 3 /\ tokens[2] = LPAREN /\ ~Unbalanced(tokens)
     /\ IsIdentStart(tokens[1][1])
     /\ ~IsConstant(toLowerCase(tokens[1]))
     /\ ~includes(FUNCTIONS, toLowerCase(tokens[1])))
      => /\ outcome.status = "threw"
         /\ IsUnknownFunctionError(outcome.err)
         /\ ~IsSyntaxError(outcome.err)

IsVectorOperation(op) == op \in {"normalizeArray", "standardizeArray"}

IsArithmeticOperation(op) ==
    op \in {"add", "subtract", "multiply", "division", "power"}

\* a function that returns an array has been called, and every such call
\* returned one
VectorReturned ==
    /\ \E k \in 1..Len(log) : IsVectorOperation(log[k].op)
    /\ \A k \in 1..Len(log) :
         IsVectorOperation(log[k].op) => Library(log[k].op, log[k].args).err = NoErr

\* C9: no Vector is an operand of an arithmetic operation, and a call that
\* returns a Vector anywhere but as a whole function argument (at top level,
\* beside an operator, under a sign, in parentheses, before an operator inside
\* an argument) fails with the vector-misuse error.
C9_VectorMisuse ==
    Done =>
      /\ \A k \in 1..Len(log) :
           IsArithmeticOperation(log[k].op)
             => \A j \in 1..Len(log[k].args) : ~log[k].args[j].isArray
      /\ (expression \in VectorMisuseInputs /\ VectorReturned)
           => outcome.status = "threw" /\ IsVectorMisuseError(outcome.err)

\* the library operation of a function that returns an array
VectorOperation(name) ==
    IF toLowerCase(name) = FN_normalizearray THEN "normalizeArray"
    ELSE "standardizeArray"

\* f(x) for a function f of the evaluator that takes a Vector and a library
\* result x
ApplyFunction(name, x) ==
    IF x.err # NoErr THEN x
    ELSE IF name = FN_mean THEN Library("mean", <<x.v>>)
    ELSE IF name = FN_min THEN Library("min", <<x.v>>)
    ELSE IF name = FN_max THEN Library("max", <<x.v>>)
    ELSE Library(VectorOperation(name), <<x.v>>)

\* the tokens from k on are g ( [..] ) with g a function that returns an array
IsVectorCall(k) ==
    /\ Len(tokens) >= k + 3
    /\ IsVectorFunction(tokens[k]) /\ tokens[k + 1] = LPAREN
    /\ IsArrayToken(tokens[k + 2]) /\ tokens[k + 3] = RPAREN

\* its value
VectorCallValue(k) ==
    LET a == parseArray(tokens[k + 2])
    IN  IF a.err # NoErr THEN a ELSE Library(VectorOperation(tokens[k]), <<a.v>>)

\* C10: the Vector returned by a call of normalizeArray or standardizeArray
\* (in any letter case, also nested in another such call) that is a function
\* argument reaches the enclosing function unchanged, and an argument that is
\* an arithmetic expression reaches it as a Scalar;
\* mean(normalizeArray([10,20,30,40,50])) is 0.5.
C10_VectorArgument ==
    Done =>
      /\ (Len(tokens) = 7 /\ tokens[1] \in {FN_mean, FN_min, FN_max}
            /\ tokens[2] = LPAREN /\ IsVectorCall(3) /\ tokens[7] = RPAREN)
           => LET x == VectorCallValue(3)
              IN  /\ x.err = NoErr
                       => Logged(LogEntry("evaluateFunction", tokens[1], <<x.v>>))
                  /\ outcome = Evaluates(ApplyFunction(tokens[1], x))
      /\ (Len(tokens) = 10 /\ tokens[1] \in {FN_mean, FN_min, FN_max}
            /\ tokens[2] = LPAREN /\ IsVectorFunction(tokens[3])
            /\ tokens[4] = LPAREN /\ IsVectorCall(5)
            /\ tokens[9] = RPAREN /\ tokens[10] = RPAREN)
           => LET x == ApplyFunction(toLowerCase(tokens[3]), VectorCallValue(5))
              IN  /\ x.err = NoErr
                       => Logged(LogEntry("evaluateFunction", tokens[1], <<x.v>>))
                  /\ outcome = Evaluates(ApplyFunction(tokens[1], x))
      /\ (Len(tokens) = 6 /\ includes(FUNCTIONS, tokens[1])
            /\ tokens[2] = LPAREN /\ IsNumberToken(tokens[3])
            /\ IsBinaryOperator(tokens[4]) /\ IsNumberToken(tokens[5])
            /\ tokens[6] = RPAREN)
           => LET x == Apply(tokens[4], Literal(tokens[3]), Literal(tokens[5]))
              IN  IF x.err # NoErr THEN outcome = Threw(x.err, TRUE)
                  ELSE Logged(LogEntry("evaluateFunction", tokens[1], <<x.v>>))
      /\ expression = README_pipeline => outcome = Returned(<<1, 2>>)

\* mean(normalizeArray([10, 20, 30, 40, 50])) has been evaluated to 0.5, the
\* mean of the Vector normalizeArray returned
C10_Witness ==
    /\ Done
    /\ expression = README_pipeline
    /\ Logged(LogEntry("evaluateFunction", FN_mean,
                       <<Vector(<<Num(0), <<1, 4>>, <<1, 2>>, <<3, 4>>, Num(1)>>)>>))
    /\ outcome = Returned(<<1, 2>>)

-----------------------------------------------------------------------------
(* C11..C15: tokens, modulo, the error prefix, finite results, arguments *)

IsTokenizeError(e) == e.msg = "Invalid mathematical expression: no valid tokens found"

\* a character of the input, white space apart, is in no token
CharacterDiscarded == Cat(tokens) # RemoveWhitespace(expression)

\* C11: an input that yields no token, or holds a character that is part of
\* no token, makes evaluate fail with the tokenize error: no character of the
\* input is dropped from the token sequence without an error.
C11_NoCharacterDiscarded ==
    (Done /\ RemoveWhitespace(expression) # <<>> /\ CharacterDiscarded)
      => outcome.status = "threw" /\ IsTokenizeError(outcome.err)

\* a mod b for integers a >= 0 and b > 0
Remainder(a, b) == Num(a[1] % b[1])

\* C12: for integer literals a and b, b not 0, "a % b" evaluates to the
\* remainder of a by b, also beside another operator and after parentheses:
\* "5 % 3" is 2, "17 % 5 + power(2, 3)" is 10, "(10 + 7) % 12" is 5.
C12_Modulo ==
    Done =>
      /\ \A a \in Literals, b \in Literals \ {<<"0">>} :
           expression = Cat(<<a, <<"%">>, b>>)
             => outcome = Returned(Remainder(parseFloat(a), parseFloat(b)))
      /\ expression = README_cycling => outcome = Returned(Num(2))
      /\ expression = README_modulo => outcome = Returned(Num(10))
      /\ expression = README_hours => outcome = Returned(Num(5))

\* C13: every failure of evaluate is one error whose message is the prefix
\* 'Invalid mathematical expression: ' followed by the inner message.
C13_EveryErrorPrefixed ==
    (Done /\ outcome.status = "threw") => outcome.wrapped

\* a Scalar that is finite, a Vector whose elements are
IsFiniteValue(v) ==
    IF v.isArray THEN \A k \in 1..Len(v.elems) : isFinite(v.elems[k])
    ELSE isFinite(v.num)

\* C14: a number evaluate returns is finite, and so was every value a library
\* operation produced on the way: an expression with a final or intermediate
\* value that is NaN or +/-Infinity (10^400, (0-1)^0.5) makes evaluate fail.
C14_FiniteResult ==
    (Done /\ outcome.status = "returned") =>
      /\ isFinite(outcome.value)
      /\ \A k \in 1..Len(log) :
           log[k].op # "evaluateFunction"
             => /\ Library(log[k].op, log[k].args).err = NoErr
                /\ IsFiniteValue(Library(log[k].op, log[k].args).v)

\* "10^400" has overflowed to Infinity in Arithmetic.power and evaluate has
\* thrown at its check of the result
C14_Witness ==
    /\ Done
    /\ expression = <<"1", "0", "^", "4", "0", "0">>
    /\ log = <<LogEntry("power", <<>>, <<Scalar(Num(10)), Scalar(Num(400))>>)>>
    /\ Library("power", <<Scalar(Num(10)), Scalar(Num(400))>>).v.num = PosInf
    /\ outcome = Threw(Err("Expression evaluation resulted in an invalid number", <<>>), TRUE)

\* the kinds of argument a function of evaluateFunction takes: TRUE a Vector
Signature(f) ==
    CASE f \in {FN_sqrt, FN_abs} -> <<FALSE>>
      [] f \in {FN_mean, FN_min, FN_max, FN_normalizearray, FN_standardizearray} -> <<TRUE>>
      [] f \in {FN_correlation, FN_covariance} -> <<TRUE, TRUE>>
      [] f = FN_zscore -> <<FALSE, FALSE, FALSE>>

ArgumentSequences ==
    UNION {[1..n -> ArgumentTexts] : n \in 0..MaxArgs}

\* the calls whose arguments are not of the count and kinds of the signature
DispatchedFunctions ==
    {FN_sqrt, FN_abs, FN_mean, FN_min, FN_max, FN_correlation, FN_covariance,
     FN_zscore, FN_normalizearray, FN_standardizearray}

MismatchedCalls ==
    {Cat(<<c[1], LPAREN, Join(c[2]), RPAREN>>) :
         c \in {d \in DispatchedFunctions \X ArgumentSequences :
                  [k \in 1..Len(d[2]) |-> IsArrayToken(d[2][k])] # Signature(d[1])}}

IsArgumentError(e) ==
    e.msg \in {"requires exactly one numeric argument",
               "requires exactly one array argument",
               "requires exactly two array arguments",
               "requires exactly three numeric arguments: value, mean, stdDev"}

\* C15: a call of a function of evaluateFunction whose arguments are not of
\* the count and kinds of its signature fails with the ArgumentError that names
\* the function, and no library operation is called.
C15_ArgumentError ==
    (Done /\ expression \in MismatchedCalls) =>
      /\ outcome.status = "threw"
      /\ IsArgumentError(outcome.err)
      /\ outcome.err.arg = tokens[1]
      /\ \A k \in 1..Len(log) : log[k].op = "evaluateFunction"

-----------------------------------------------------------------------------
(* evaluate on nested expressions, run to its end *)

\* x inside a parenthesis, under a sign, as an exponent and as an operand
Wrappings(x) ==
    {Cat(<<LPAREN, x, RPAREN>>), Cat(<<MINUS, x>>), Cat(<<<<"2">>, CARET, x>>),
     Cat(<<<<"1">>, PLUS, x>>)}

RECURSIVE Nested(_)
Nested(n) ==
    IF n = 0 THEN {<<"1">>, <<>>}
    ELSE Nested(n - 1) \cup UNION {Wrappings(x) : x \in Nested(n - 1)}

\* the nested expressions, and each of them as the argument of a function
NestedInputs ==
    Nested(MaxNest) \cup {Cat(<<FN_sqrt, LPAREN, x, RPAREN>>) : x \in Nested(MaxNest - 1)}

InitNested ==
    /\ expression \in NestedInputs
    /\ pc = "start"
    /\ tokens = <<>>
    /\ index = 0
    /\ log = <<>>
    /\ outcome = NoOutcome
    /\ suspended = <<>>
    /\ response = NoResponse

\* evaluate and the handler that called it are synchronous code: once
\* called, they run on until the handler has returned its response
SpecNested == InitNested /\ [][Next]_vars /\ WF_vars(Next)

-----------------------------------------------------------------------------
(* The library operations called directly, as the tools of the server call
   them: log holds the call, outcome what it returned or threw. *)

LibraryNumbers == {Num(1), Num(2), NaN, PosInf, NegInf}

LibraryArrays == UNION {[1..n -> LibraryNumbers] : n \in 0..MaxArray}

\* the second array of an operation on two arrays
SecondArrays == UNION {[1..n -> {Num(1), Num(2), NaN}] : n \in 0..MaxArray}

Percentiles == {Num(0), Num(25), Num(50), Num(100), Num(-1), Num(101), NaN}

RoundNumbers ==
    {Norm(2 * k + 1, 2) : k \in (0 - MaxRound - 1)..MaxRound}
      \cup {Num(k) : k \in (0 - MaxRound)..MaxRound}
      \cup {Norm(4 * k + 1, 4) : k \in (0 - MaxRound)..MaxRound}
      \cup {NaN, PosInf, NegInf}

\* arrays of finite numbers, in every order
SortNumbers == {Num(-1), <<1, 2>>, Num(2), Num(3)}

SortArrays == UNION {[1..n -> SortNumbers] : n \in 1..MaxSort}

GcdNumbers ==
    {Num(k) : k \in (0 - MaxGcd)..MaxGcd} \cup {<<1, 2>>, NaN, PosInf}

OneArrayOperations ==
    {"mean", "median", "mode", "min", "max", "variance", "standardDeviation",
     "range", "normalizeArray", "standardizeArray"}

TwoArrayOperations == {"correlation", "covariance"}

LibraryCalls ==
    {LogEntry(op, <<>>, <<Vector(a)>>) : op \in OneArrayOperations, a \in LibraryArrays}
      \cup {LogEntry(op, <<>>, <<Vector(a), Vector(b)>>) :
                op \in TwoArrayOperations, a \in LibraryArrays, b \in SecondArrays}
      \cup {LogEntry("percentile", <<>>, <<Vector(a), Scalar(p)>>) :
                a \in LibraryArrays, p \in Percentiles}
      \cup {LogEntry("round", <<>>, <<Scalar(x)>>) : x \in RoundNumbers}
      \cup {LogEntry("median", <<>>, <<Vector(a)>>) : a \in SortArrays}
      \cup {LogEntry("percentile", <<>>, <<Vector(a), Scalar(p)>>) :
                a \in SortArrays, p \in Percentiles}
      \cup {LogEntry("gcd", <<>>, <<Scalar(a), Scalar(b)>>) :
                a \in GcdNumbers, b \in GcdNumbers}

InitLibrary ==
    /\ expression = <<>>
    /\ pc = "call"
    /\ tokens = <<>>
    /\ index = 0
    /\ log \in {<<c>> : c \in LibraryCalls}
    /\ outcome = NoOutcome
    /\ suspended = <<>>
    /\ response = NoResponse

\* the arguments as the caller holds them after the call: median and
\* percentile throw only before their sort, and no other statement of an
\* operation assigns to an array it was given
ArgumentsAfter(op, args, err) ==
    IF op \in {"median", "percentile"} /\ err = NoErr
    THEN <<Vector(SortedCopy(args[1].elems).numbers)>> \o Tail(args)
    ELSE args

\* the operation runs: it returns a number or an array, or throws; the log
\* then holds the arguments as they are after the call
CallLibrary ==
    /\ pc = "call"
    /\ LET Result(r) ==
               /\ outcome' = IF r.err # NoErr THEN Threw(r.err, FALSE) ELSE Returned(r.v)
               /\ log' = Append(log, LogEntry("after", <<>>,
                                              ArgumentsAfter(log[1].op, log[1].args, r.err)))
       IN  Result(Library(log[1].op, log[1].args))
    /\ pc' = "done"
    /\ UNCHANGED <<expression, tokens, index, suspended, response>>

NextLibrary == CallLibrary

SpecLibrary == InitLibrary /\ [][NextLibrary]_vars

-----------------------------------------------------------------------------
(* C16, C17: calls of evaluate that run together *)

TokensAlone(expr, at) ==
    IF at \in {"validate", "parse", "check"} THEN tokenize(expr).tokens ELSE <<>>

CursorAlone(expr, at) ==
    IF at = "check"
    THEN Invoke("parseExpression", tokenize(expr).tokens, <<>>, 0, <<>>).i
    ELSE 0

-----------------------------------------------------------------------------
(* C18: the 'evaluate' tool *)

Responded == pc = "responded"

\* C18: the handler of the 'evaluate' tool never lets an error escape: for
\* every input it returns a response with exactly one item, of type text,
\* whose text is the rendering of the number evaluate returned ("1+2" gives
\* "3", "1/2" gives "0.5", "0-3" gives "-3") or 'Error: ' followed by the
\* message of the error evaluate threw.
C18_ToolResponse ==
    Responded =>
      /\ ~response.raised
      /\ Len(response.content) = 1
      /\ response.content[1].type = "text"
      /\ outcome = evaluate(expression)
      /\ outcome.status = "returned"
           => response.content[1].text = NumberToString(outcome.value)
      /\ outcome.status = "threw"
           => /\ Len(response.content[1].text) >= 2
              /\ response.content[1].text[1] = "Error: "
              /\ Tail(response.content[1].text) = ErrorMessage(outcome)
      /\ expression = <<"1", "+", "2">> => response.content[1].text = <<"3">>
      /\ expression = <<"1", "/", "2">> => response.content[1].text = <<"0", ".", "5">>
      /\ expression = <<"0", "-", "3">> => response.content[1].text = <<"-", "3">>
      /\ expression = <<"1", "/", "0">>
           => response.content[1].text =
                <<"Error: ", "Invalid mathematical expression: ", "Division by zero is not allowed. Denominator cannot be zero.">>
      /\ expression = <<>>
           => response.content[1].text = <<"Error: ", "Expression cannot be empty">>

\* the handler has answered "1/0" with the text of the error it caught
C18_Witness ==
    /\ Responded
    /\ expression = <<"1", "/", "0">>
    /\ outcome.status = "threw"
    /\ response = TextResponse(<<"Error: ">> \o ErrorMessage(outcome))

-----------------------------------------------------------------------------
(* C19, C20: the library operations *)

IsInvalidArray(v) ==
    v.isArray /\ (Len(v.elems) = 0 \/ \E k \in 1..Len(v.elems) : ~isFinite(v.elems[k]))

IsValidationError(e) ==
    e.msg \in {"cannot be empty", "cannot be NaN", "must be a finite number"}

IsLengthError(e) == e.msg = "Arrays must have the same length"

\* C19: every operation of Statistics and DataScience that takes an array
\* throws, and returns nothing, when an array it is given is empty or holds
\* NaN, Infinity or -Infinity; correlation and covariance also throw when
\* their two arrays have different lengths.
C19_InvalidArraysRejected ==
    (Done /\ log[1].op \in OneArrayOperations \cup TwoArrayOperations \cup {"percentile"}) =>
      /\ (\E k \in 1..Len(log[1].args) : IsInvalidArray(log[1].args[k]))
           => outcome.status = "threw" /\ IsValidationError(outcome.err)
      /\ (/\ log[1].op \in TwoArrayOperations
          /\ Len(log[1].args[1].elems) # Len(log[1].args[2].elems))
           => outcome.status = "threw"
      /\ (/\ log[1].op \in TwoArrayOperations
          /\ Len(log[1].args[1].elems) # Len(log[1].args[2].elems)
          /\ \A k \in 1..2 : ~IsInvalidArray(log[1].args[k]))
           => IsLengthError(outcome.err)

\* correlation of [1, 2] and [1] has thrown the error of the lengths, and
\* mean of [1, NaN] the error of validateNumberArray
C19_Witness ==
    /\ Done
    /\ \/ /\ log[1] = LogEntry("correlation", <<>>,
                               <<Vector(<<Num(1), Num(2)>>), Vector(<<Num(1)>>)>>)
          /\ outcome.status = "threw"
          /\ IsLengthError(outcome.err)
       \/ /\ log[1] = LogEntry("covariance", <<>>,
                               <<Vector(<<Num(1), PosInf>>), Vector(<<Num(1), Num(2)>>)>>)
          /\ outcome.status = "threw"
          /\ outcome.err = Err("must be a finite number", <<"xArray">>)

\* C20: round rounds halves away from zero: round(k + 0.5) = k + 1 for every
\* integer k >= 0 and round(k - 0.5) = k - 1 for every integer k <= 0.
C20_RoundHalfAwayFromZero ==
    (Done /\ log[1].op = "round") =>
      \A k \in (0 - MaxRound)..MaxRound :
        /\ (k >= 0 /\ log[1].args[1].num = Norm(2 * k + 1, 2))
             => outcome = Returned(Scalar(Num(k + 1)))
        /\ (k <= 0 /\ log[1].args[1].num = Norm(2 * k - 1, 2))
             => outcome = Returned(Scalar(Num(k - 1)))

-----------------------------------------------------------------------------
(* C21..C23: gcd, median, percentile *)

Divides(d, n) == n % d = 0

\* C21: for every pair of integers gcd accepts, negative, zero or positive,
\* the Euclidean loop ends and the result is the largest positive integer
\* that divides both of them.
C21_GreatestCommonDivisor ==
    (/\ Done
     /\ log[1].op = "gcd"
     /\ validateInteger(log[1].args[1].num, "a") = NoErr
     /\ validateInteger(log[1].args[2].num, "b") = NoErr) =>
      /\ outcome.status = "returned"
      /\ LET a == log[1].args[1].num[1]
             b == log[1].args[2].num[1]
             g == outcome.value.num[1]
         IN  /\ outcome.value.num[2] = 1
             /\ g > 0
             /\ Divides(g, a) /\ Divides(g, b)
             /\ \A d \in 1..(MaxGcd + 1) : (Divides(d, a) /\ Divides(d, b)) => d <= g

IsValidArray(v) == v.isArray /\ ~IsInvalidArray(v)

\* the k-th smallest of the numbers xs, counted with repetitions
KthSmallest(xs, k) ==
    CHOOSE v \in {xs[j] : j \in 1..Len(xs)} :
        /\ Cardinality({j \in 1..Len(xs) : Less(xs[j], v)}) < k
        /\ Cardinality({j \in 1..Len(xs) : ~Less(v, xs[j])}) >= k

\* the middle of the sorted numbers, or the mean of the two in the middle
MiddleOf(xs) ==
    LET n == Len(xs)
    IN  IF n % 2 = 1 THEN KthSmallest(xs, (n + 1) \div 2)
        ELSE QDiv(QAdd(KthSmallest(xs, n \div 2), KthSmallest(xs, (n \div 2) + 1)), Num(2))

Reverse(xs) == [j \in 1..Len(xs) |-> xs[Len(xs) + 1 - j]]

-----------------------------------------------------------------------------
(* C24..C30: array literals, operators, the cursor, parentheses *)

\* the number an element of WellFormedElements writes
WrittenValue(e) ==
    CASE e = <<"1">> -> Num(1)
      [] e = <<"-", "2">> -> Num(-2)
      [] e = <<"1", ".", "5">> -> <<3, 2>>

\* the argument mean was called with
MeanCalledWith(v) ==
    \E k \in 1..Len(log) : log[k] = LogEntry("mean", <<>>, <<v>>)

\* C24: an array literal is accepted only when it is a list of one or more
\* decimals, each with an optional '-', separated by commas: an empty or
\* malformed element or a nested literal makes evaluate fail, and an accepted
\* literal is the Vector of the written numbers, in the written order.
C24_ArrayLiteral ==
    Done =>
      /\ \A es \in ElementLists :
           expression = MeanOfLiteral(ArrayLiteral(es)) =>
             IF \A k \in 1..Len(es) : es[k] \in WellFormedElements
             THEN /\ outcome.status = "returned"
                  /\ MeanCalledWith(Vector([k \in 1..Len(es) |-> WrittenValue(es[k])]))
             ELSE outcome.status = "threw"
      /\ expression \in {MeanOfLiteral(NESTED_12), MeanOfLiteral(<<"[", "]">>)}
           => outcome.status = "threw"

BinaryOperations == {"add", "subtract", "multiply", "division", "power"}

\* C25: an application of '+', '-', '*', '/' or '^' to two finite operands
\* fails or hands a finite value back to the grammar rule that made it: the
\* operation never returns a NaN or an Infinity that it has produced itself.
C25_OperatorResultFinite ==
    \A k \in 1..Len(log) :
        (/\ log[k].op \in BinaryOperations
         /\ isFinite(log[k].args[1].num)
         /\ isFinite(log[k].args[2].num))
          => \/ Library(log[k].op, log[k].args).err # NoErr
             \/ isFinite(Library(log[k].op, log[k].args).v.num)

\* the entries and exits of the grammar rules while toks are parsed
RuleTrace(toks) == RulesOf(Invoke("parseExpression", toks, <<>>, 0, <<>>).log)

CursorAt(entry) == entry.args[1].num[1]

\* the parser has run on the tokens
AfterParse ==
    /\ pc \in {"check", "done", "responded"}
    /\ tokens # <<>>
    /\ validateParentheses(tokens) = NoErr

\* the errors of a grammar rule that looks for a token
NeedsToken(e) ==
    e.msg \in {"Unexpected end of expression",
               "Function must be followed by parentheses",
               "Mismatched parentheses: missing closing parenthesis",
               "Mismatched parentheses: missing closing parenthesis for function"}

\* C26: in a call of evaluate the cursor starts at 0, never decreases and
\* stays between 0 and the number of tokens, and a grammar rule that needs a
\* token when the tokens are exhausted fails with the error of an unexpected
\* end of the expression.
C26_Cursor ==
    AfterParse =>
      LET t == RuleTrace(tokens)
      IN  /\ t[1] = Entered("parseExpression", 0)
          /\ \A k \in 1..Len(t) : CursorAt(t[k]) \in 0..Len(tokens)
          /\ \A k \in 1..(Len(t) - 1) : CursorAt(t[k]) <= CursorAt(t[k + 1])
          /\ index \in 0..Len(tokens)
          /\ (/\ outcome.status = "threw"
              /\ NeedsToken(outcome.err)
              /\ index = Len(tokens))
               => outcome.err.msg = "Unexpected end of expression"

IsTrailingTokenError(e) == e.msg = "Unexpected token at end of expression"

\* C27: evaluate returns a number only if the parser has consumed every
\* token: when the top rule returns with the cursor before the end of the
\* tokens ("(1)(2)", "2 pi"), evaluate fails with the trailing-token error
\* that names the first token not consumed.
C27_EveryTokenConsumed ==
    (pc \in {"done", "responded"}) =>
      /\ outcome.status = "returned" => index = Len(tokens)
      /\ AfterParse =>
           LET Checked(r) ==
                   (r.err = NoErr /\ r.i < Len(tokens))
                     => outcome = Threw(Err("Unexpected token at end of expression",
                                            tokens[r.i + 1]), TRUE)
           IN  Checked(Invoke("parseExpression", tokens, <<>>, 0, <<>>))
      /\ expression = <<"(", "1", ")", "(", "2", ")">>
           => IsTrailingTokenError(outcome.err) /\ outcome.err.arg = LPAREN
      /\ expression = <<"2", " ", "p", "i">>
           => IsTrailingTokenError(outcome.err) /\ outcome.err.arg = <<"p", "i">>

\* "(1)(2)": the parser has returned 1 with the cursor at the second '(' and
\* evaluate has thrown the error that names it
C27_Witness ==
    /\ Done
    /\ expression = <<"(", "1", ")", "(", "2", ")">>
    /\ index = 3
    /\ Len(tokens) = 6
    /\ outcome = Threw(Err("Unexpected token at end of expression", LPAREN), TRUE)

\* the entries of t from the k-th on nest properly below the rules of the
\* stack: a rule is entered again only with the cursor further on than at
\* each entry of the same rule that has not been left, and never more than
\* bound rules are entered and not left
RECURSIVE NestsWell(_, _, _, _)
NestsWell(t, k, stack, bound) ==
    IF k > Len(t) THEN stack = <<>>
    ELSE IF t[k].op = "enter"
    THEN /\ \A j \in 1..Len(stack) :
                stack[j].name = t[k].name => CursorAt(stack[j]) < CursorAt(t[k])
         /\ Len(stack) < bound
         /\ NestsWell(t, k + 1, Append(stack, t[k]), bound)
    ELSE /\ stack # <<>>
         /\ NestsWell(t, k + 1, SubSeq(stack, 1, Len(stack) - 1), bound)

\* the deepest nesting of the rules in t
RECURSIVE DeepestNesting(_, _, _)
DeepestNesting(t, k, depth) ==
    IF k > Len(t) THEN depth
    ELSE IF t[k].op = "enter"
    THEN LET rest == DeepestNesting(t, k + 1, depth + 1)
         IN  IF rest > depth + 1 THEN rest ELSE depth + 1
    ELSE DeepestNesting(t, k + 1, depth - 1)

\* five rules lead from parseExpression to parseFactor
NestingBound(toks) == 5 * (Len(toks) + 1)

RecursionAdvances ==
    AfterParse => NestsWell(RuleTrace(tokens), 1, <<>>, NestingBound(tokens))

\* C28: evaluate terminates on every input with a number or an error: a
\* grammar rule is entered again (after a sign, '(', '^', a binary operator,
\* in an argument list) only when the cursor has advanced, so the depth of
\* the rule invocations is bounded by a linear function of the token count.
C28_Terminates ==
    /\ []RecursionAdvances
    /\ <>(pc = "responded" /\ outcome.status \in {"returned", "threw"})

\* "((1))" has been evaluated to 1 through rules nested 15 deep
C28_Witness ==
    /\ pc = "responded"
    /\ expression = <<"(", "(", "1", ")", ")">>
    /\ outcome = Returned(Num(1))
    /\ DeepestNesting(RuleTrace(tokens), 1, 0) = 15

IsMismatchedParenthesesError(e) ==
    e.msg \in {"Mismatched parentheses: missing closing parenthesis",
               "Mismatched parentheses: unexpected closing parenthesis",
               "Mismatched parentheses: missing closing parenthesis for function"}

=============================================================================
